---- MODULE Spec2Model ----
(***************************************************************************)
(* Model of the TMF921 validation-and-repair pipeline:                     *)
(*   OllamaClient.extract_json            (src/src/tmf921/core/client.py)  *)
(*   CharacteristicNameMapper             (src/name_mapper.py)             *)
(*   TMF921TypeCorrector                  (post_processing/type_corrector) *)
(*   TMF921Validator                      (src/src/tmf921/core/schema.py)  *)
(*   BaseExperiment.process_scenario      (src/experiments/base_experiment)*)
(*                                                                         *)
(* Python values are tagged records, Python strings are sequences of       *)
(* one-character strings, floats are fixed-point integers scaled by        *)
(* FloatScale.  A Python exception is the value Raised(kind).              *)
(***************************************************************************)
EXTENDS Integers, Sequences, FiniteSets, TLC

\* the locals of one pass over one record
VARIABLES pc, intent, response_text, extracted, name_corrections,
          type_corrections, validation, calls

\* BaseExperiment: scenarios, export_icm, the loop index of run, results,
\* the files of results_dir, the totals of the client and the attempt of
\* the retried generate call
VARIABLES scenarios, export_icm, idx, results, files, client, attempt_number

\* SimpleToICMConverter: its counters, and the conversions made so far
VARIABLES converter, converted

\* one TMF921TypeCorrector shared by several callers: the list objects,
\* the list self.corrections_made refers to, and the callers
VARIABLES heap, corrections_made, callers

recordVars == <<pc, intent, response_text, extracted, name_corrections,
                type_corrections, validation, calls>>

runVars == <<scenarios, export_icm, idx, results, files, client, attempt_number>>

icmVars == <<converter, converted>>

sharedVars == <<heap, corrections_made, callers>>

vars == <<recordVars, runVars, icmVars, sharedVars>>

\* no experiment is running
IdleRun ==
  /\ scenarios = <<>> /\ export_icm = FALSE /\ idx = 0 /\ results = <<>>
  /\ files = {} /\ client = [total_tokens |-> 0, total_time |-> 0]
  /\ attempt_number = 0

\* no conversion has been made
IdleIcm ==
  /\ converter = [intent_counter |-> 0, target_counter |-> 0, expectation_counter |-> 0]
  /\ converted = <<>>

\* no corrector is shared
IdleShared == heap = <<>> /\ corrections_made = 0 /\ callers = <<>>

----------------------------------------------------------------------------
(* Bounds of the exploration.                                              *)

\* Largest number of characteristics in a generated record.
MaxChars == 2

----------------------------------------------------------------------------
(* Python strings.                                                         *)

LowerTable ==
  [A |-> "a", B |-> "b", C |-> "c", D |-> "d", E |-> "e", F |-> "f", G |-> "g",
   H |-> "h", I |-> "i", J |-> "j", K |-> "k", L |-> "l", M |-> "m", N |-> "n",
   O |-> "o", P |-> "p", Q |-> "q", R |-> "r", S |-> "s", T |-> "t", U |-> "u",
   V |-> "v", W |-> "w", X |-> "x", Y |-> "y", Z |-> "z"]

\* str.lower() on one character
LowerChar(c) == IF c \in DOMAIN LowerTable THEN LowerTable[c] ELSE c

\* str.lower()
Lower(s) == [i \in 1..Len(s) |-> LowerChar(s[i])]

\* `sub in s` for two strings
Contains(sub, s) ==
  \E i \in 0..(Len(s) - Len(sub)) : SubSeq(s, i + 1, i + Len(sub)) = sub

IsSpace(c) == c \in {" ", "\n", "\t"}

RECURSIVE LStrip(_)
LStrip(s) == IF s # <<>> /\ IsSpace(Head(s)) THEN LStrip(Tail(s)) ELSE s

RECURSIVE RStrip(_)
RStrip(s) ==
  IF s # <<>> /\ IsSpace(s[Len(s)]) THEN RStrip(SubSeq(s, 1, Len(s) - 1)) ELSE s

\* str.strip()
Strip(s) == RStrip(LStrip(s))

Digits == <<"0", "1", "2", "3", "4", "5", "6", "7", "8", "9">>

IsDigit(c) == \E d \in 1..Len(Digits) : Digits[d] = c

DigitVal(c) == (CHOOSE d \in 1..Len(Digits) : Digits[d] = c) - 1

AllDigits(s) == \A i \in 1..Len(s) : IsDigit(s[i])

\* value of a digit string read as a decimal numeral
RECURSIVE DigitsVal(_)
DigitsVal(s) ==
  IF s = <<>> THEN 0
  ELSE 10 * DigitsVal(SubSeq(s, 1, Len(s) - 1)) + DigitVal(s[Len(s)])

\* decimal numeral of a natural number
RECURSIVE NatStr(_)
NatStr(n) ==
  IF n < 10 THEN <<Digits[n + 1]>>
  ELSE NatStr(n \div 10) \o <<Digits[(n % 10) + 1]>>

----------------------------------------------------------------------------
(* Python numbers.  A float f is held as the integer f * FloatScale.       *)

\* number of decimal places a modelled float keeps
FracDigits == 4

FloatScale == 10 ^ FracDigits

\* the float num/den
Flt(num, den) == [t |-> "float", m |-> (num * FloatScale) \div den]

Failed == [ok |-> FALSE, n |-> 0]

Parsed(n) == [ok |-> TRUE, n |-> n]

HasSign(s) == s # <<>> /\ Head(s) \in {"-", "+"}

Unsigned(s) == IF HasSign(s) THEN Tail(s) ELSE s

SignOf(s) == IF s # <<>> /\ Head(s) = "-" THEN -1 ELSE 1

\* a stripped str read as an optional sign and decimal digits
SignedDigits(s) ==
  IF Unsigned(s) # <<>> /\ AllDigits(Unsigned(s))
  THEN Parsed(SignOf(s) * DigitsVal(Unsigned(s)))
  ELSE Failed

\* int(s) for a str: optional sign, then decimal digits only
ParseInt(str) == SignedDigits(Strip(str))

DotAt(u) == IF \E i \in 1..Len(u) : u[i] = "."
            THEN CHOOSE i \in 1..Len(u) : u[i] = "." /\ \A j \in 1..(i - 1) : u[j] # "."
            ELSE 0

\* the first FracDigits digits after the point, as an integer scaled to FloatScale
RECURSIVE FracVal(_, _)
FracVal(s, k) ==
  IF k = 0 THEN 0
  ELSE (IF s = <<>> THEN 0 ELSE DigitVal(Head(s))) * (10 ^ (k - 1))
       + FracVal(IF s = <<>> THEN s ELSE Tail(s), k - 1)

\* the digits before the point of an unsigned numeral
IntegerPart(u) == IF DotAt(u) = 0 THEN u ELSE SubSeq(u, 1, DotAt(u) - 1)

\* the digits after the point of an unsigned numeral
FractionPart(u) == IF DotAt(u) = 0 THEN <<>> ELSE SubSeq(u, DotAt(u) + 1, Len(u))

\* the float of a sign, the digits ip before the point and fp after it
Decimal(sign, ip, fp) ==
  IF /\ AllDigits(ip) /\ AllDigits(fp) /\ Len(ip) + Len(fp) > 0
  THEN Parsed(sign * (DigitsVal(ip) * FloatScale + FracVal(fp, FracDigits)))
  ELSE Failed

\* a stripped str read as a float
SignedDecimal(s) == Decimal(SignOf(s), IntegerPart(Unsigned(s)), FractionPart(Unsigned(s)))

\* float(s) for a str without exponent: optional sign, digits, optional point
ParseFloat(str) == SignedDecimal(Strip(str))

\* digits of the fractional part m (0 <= m < FloatScale), trailing zeros dropped
RECURSIVE FracStr(_, _)
FracStr(m, k) ==
  IF k = 0 \/ (m = 0 /\ k < FracDigits) THEN <<>>
  ELSE <<Digits[(m \div (10 ^ (k - 1))) + 1]>> \o FracStr(m % (10 ^ (k - 1)), k - 1)

\* str(f) for a float
FloatStr(m) ==
  LET a == IF m < 0 THEN -m ELSE m
  IN  (IF m < 0 THEN <<"-">> ELSE <<>>)
      \o NatStr(a \div FloatScale) \o <<".">> \o FracStr(a % FloatScale, FracDigits)

\* str(n) for an int
IntStr(n) == IF n < 0 THEN <<"-">> \o NatStr(-n) ELSE NatStr(n)

----------------------------------------------------------------------------
(* Python values.                                                          *)

PyNone == [t |-> "none"]

PyBool(b) == [t |-> "bool", b |-> b]

PyInt(n) == [t |-> "int", n |-> n]

PyFloat(m) == [t |-> "float", m |-> m]

PyStr(s) == [t |-> "str", s |-> s]

PyList(items) == [t |-> "list", items |-> items]

\* a key that is not in a dict
Absent == [t |-> "absent"]

\* the {value, unitOfMeasure} object of a characteristic
ValueObj(v, u) == [t |-> "dict", value |-> v, unitOfMeasure |-> u]

\* one element of serviceSpecCharacteristic
Char(n, v) == [name |-> n, value |-> v]

\* an exception leaving a call
Raised(kind) == [raised |-> TRUE, exc |-> kind]

\* isinstance(v, int): bool is a subclass of int
IsInt(v) == v.t \in {"int", "bool"}

\* isinstance(v, (int, float))
IsNumber(v) == v.t \in {"int", "bool", "float"}

\* bool(v)
Truthy(v) ==
  CASE v.t = "none" -> FALSE
    [] v.t = "absent" -> FALSE
    [] v.t = "bool" -> v.b
    [] v.t = "int" -> v.n # 0
    [] v.t = "float" -> v.m # 0
    [] v.t = "str" -> v.s # <<>>
    [] v.t = "list" -> v.items # <<>>
    [] OTHER -> TRUE

\* repr of a list element
ReprItem(v) ==
  CASE v.t = "str" -> <<"'">> \o v.s \o <<"'">>
    [] v.t = "int" -> IntStr(v.n)
    [] v.t = "float" -> FloatStr(v.m)
    [] OTHER -> <<"?">>

RECURSIVE JoinRepr(_)
JoinRepr(items) ==
  IF items = <<>> THEN <<>>
  ELSE IF Len(items) = 1 THEN ReprItem(items[1])
  ELSE ReprItem(items[1]) \o <<",", " ">> \o JoinRepr(Tail(items))

\* str(v)
Str(v) ==
  CASE v.t = "str" -> v.s
    [] v.t = "int" -> IntStr(v.n)
    [] v.t = "float" -> FloatStr(v.m)
    [] v.t = "bool" -> IF v.b THEN <<"T", "r", "u", "e">> ELSE <<"F", "a", "l", "s", "e">>
    [] v.t = "none" -> <<"N", "o", "n", "e">>
    [] v.t = "list" -> <<"[">> \o JoinRepr(v.items) \o <<"]">>
    [] OTHER -> <<"{", "}">>

----------------------------------------------------------------------------
(* The GST specification handed to the components (gst_spec): an ordered   *)
(* list of characteristics, each with a name, a valueType and an optional  *)
(* unitOfMeasure.                                                          *)

Spec_(n, ty, u) == [name |-> n, valueType |-> ty, unitOfMeasure |-> u]

NoUnit == [t |-> "absent"]

GST ==
  << Spec_(<<"D", "e", "l", "a", "y", " ", "t", "o", "l", "e", "r", "a", "n", "c", "e">>, "FLOAT", [t |-> "str", s |-> <<"m", "s">>]),
     Spec_(<<"A", "v", "a", "i", "l", "a", "b", "i", "l", "i", "t", "y">>, "FLOAT", [t |-> "str", s |-> <<"%">>]),
     Spec_(<<"M", "a", "x", " ", "t", "h", "r", "o", "u", "g", "h", "p", "u", "t">>, "FLOAT", [t |-> "str", s |-> <<"G", "b", "p", "s">>]),
     Spec_(<<"N", "u", "m", "b", "e", "r", " ", "o", "f", " ", "U", "E", "s">>, "INTEGER", NoUnit),
     Spec_(<<"A", "r", "e", "a">>, "TEXT", NoUnit),
     Spec_(<<"M", "M", "T", "e", "l">>, "BINARY", NoUnit),
     Spec_(<<"B", "a", "n", "d", "s">>, "SET", NoUnit),
     Spec_(<<"I", "s", "o", "l", "a", "t", "i", "o", "n">>, "ENUM", NoUnit),
     Spec_(<<"V", "2", "X">>, "TEXT", NoUnit) >>

\* TMF921Validator.valid_characteristics / TMF921TypeCorrector.characteristic_types:
\* the names that are keys of the registry
RegistryNames == {GST[i].name : i \in 1..Len(GST)}

\* valid_characteristics[name]; a later entry of the same name replaces an earlier one
GstChar(name) ==
  GST[CHOOSE i \in 1..Len(GST) :
        GST[i].name = name /\ \A j \in (i + 1)..Len(GST) : GST[j].name # name]

\* `char_name not in self.valid_characteristics` for the value of char.get('name')
InRegistry(n) == n.t = "str" /\ n.s \in RegistryNames

----------------------------------------------------------------------------
(* TMF921Validator (src/src/tmf921/core/schema.py).                        *)
(* An error or warning string is a record: the kind of message and the     *)
(* characteristic name (or index, or field) formatted into it.             *)

Err(kind, who) == [kind |-> kind, who |-> who]

Ok(valid, msgs) == [raised |-> FALSE, valid |-> valid, msgs |-> msgs]

\* dict.get(key, default) on a key that may be missing
GetOr(v, default) == IF v.t = "absent" THEN default ELSE v

RECURSIVE FormatCharErrors(_, _)
FormatCharErrors(items, i) ==
  IF i > Len(items) THEN <<>>
  ELSE (IF items[i].name.t = "absent" THEN <<Err("char_missing_name", IntStr(i - 1))>> ELSE <<>>)
       \o (IF items[i].value.t = "absent" THEN <<Err("char_missing_value", IntStr(i - 1))>> ELSE <<>>)
       \o FormatCharErrors(items, i + 1)

\* an empty name or description counted as a missing one
validate_format_nonempty(d) ==
  LET errors ==
        (IF ~Truthy(d.name) THEN <<Err("missing_field", <<"n", "a", "m", "e">>)>> ELSE <<>>)
        \o (IF ~Truthy(d.description) THEN <<Err("missing_field", <<"d", "e", "s", "c", "r", "i", "p", "t", "i", "o", "n">>)>> ELSE <<>>)
        \o (IF d.chars.t = "absent" THEN <<>>
            ELSE IF d.chars.t # "list" THEN <<Err("must_be_list", <<"s", "e", "r", "v", "i", "c", "e", "S", "p", "e", "c", "C", "h", "a", "r", "a", "c", "t", "e", "r", "i", "s", "t", "i", "c">>)>>
            ELSE FormatCharErrors(d.chars.items, 1))
  IN  Ok(Len(errors) = 0, errors)

validate_format(d) ==
  LET errors ==
        (IF d.name.t = "absent" THEN <<Err("missing_field", <<"n", "a", "m", "e">>)>> ELSE <<>>)
        \o (IF d.description.t = "absent" THEN <<Err("missing_field", <<"d", "e", "s", "c", "r", "i", "p", "t", "i", "o", "n">>)>> ELSE <<>>)
        \o (IF d.chars.t = "absent" THEN <<>>
            ELSE IF d.chars.t # "list" THEN <<Err("must_be_list", <<"s", "e", "r", "v", "i", "c", "e", "S", "p", "e", "c", "C", "h", "a", "r", "a", "c", "t", "e", "r", "i", "s", "t", "i", "c">>)>>
            ELSE FormatCharErrors(d.chars.items, 1))
  IN  Ok(Len(errors) = 0, errors)

\* the type check with text and booleans refused where a number is declared
TypeErrorsStrict(char_name, value, text, expected_type) ==
  CASE expected_type = "INTEGER" ->
         IF value.t = "int" THEN <<>> ELSE <<Err("expected_INTEGER", char_name)>>
    [] expected_type = "FLOAT" ->
         IF value.t \in {"int", "float"} THEN <<>> ELSE <<Err("expected_FLOAT", char_name)>>
    [] expected_type = "TEXT" ->
         IF value.t = "str" THEN <<>> ELSE <<Err("expected_TEXT", char_name)>>
    [] expected_type = "BINARY" ->
         IF value.t = "bool" THEN <<>> ELSE <<Err("expected_BINARY", char_name)>>
    [] expected_type = "ENUM" ->
         IF value.t = "str" THEN <<>> ELSE <<Err("expected_ENUM", char_name)>>
    [] expected_type = "SET" ->
         IF value.t = "list" THEN <<>> ELSE <<Err("expected_SET", char_name)>>
    [] OTHER -> <<>>

\* the type check for a value whose str() is text
TypeErrors(char_name, value, text, expected_type) ==
  CASE expected_type = "INTEGER" ->
         IF IsInt(value) THEN <<>>
         ELSE IF ParseInt(text).ok
              THEN (IF Contains(<<".">>, text)
                    THEN <<Err("integer_decimal_point", char_name)>> ELSE <<>>)
              ELSE <<Err("expected_INTEGER", char_name)>>
    [] expected_type = "FLOAT" ->
         IF IsNumber(value) \/ ParseFloat(text).ok THEN <<>>
         ELSE <<Err("expected_FLOAT", char_name)>>
    [] expected_type = "TEXT" ->
         IF value.t = "str" THEN <<>> ELSE <<Err("expected_TEXT", char_name)>>
    [] expected_type = "BINARY" ->
         IF IsInt(value) \/ Lower(text) \in {<<"t", "r", "u", "e">>, <<"f", "a", "l", "s", "e">>, <<"0">>, <<"1">>, <<"y", "e", "s">>, <<"n", "o">>}
         THEN <<>> ELSE <<Err("expected_BINARY", char_name)>>
    [] expected_type = "ENUM" ->
         IF value.t = "str" THEN <<>> ELSE <<Err("expected_ENUM", char_name)>>
    [] expected_type = "SET" ->
         IF value.t = "list" THEN <<>> ELSE <<Err("expected_SET", char_name)>>
    [] OTHER -> <<>>

_validate_value_type(char_name, value, expected_type) ==
  TypeErrors(char_name, value, Str(value), expected_type)

\* a percentage one point too strict: 100 is out of range as well
PercentageAtOrOutOfRange(m) == m < 0 \/ m >= 100 * FloatScale

\* numeric_value < 0 or numeric_value > 100
PercentageOutOfRange(m) == m < 0 \/ m > 100 * FloatScale

\* the constraint messages for a numeric value m (scaled), the lowered
\* name n and the lowered unit u
ConstraintMessages(char_name, n, m, u, value_type) ==
  (IF u \in {<<"%">>, <<"p", "e", "r", "c", "e", "n", "t">>, <<"p", "e", "r", "c", "e", "n", "t", "a", "g", "e">>} /\ PercentageOutOfRange(m)
   THEN <<Err("percentage_out_of_range", char_name)>> ELSE <<>>)
  \o (IF Contains(<<"t", "h", "r", "o", "u", "g", "h", "p", "u", "t">>, n) \/ Contains(<<"b", "a", "n", "d", "w", "i", "d", "t", "h">>, n)
      THEN (IF m < 0 THEN <<Err("throughput_negative", char_name)>> ELSE <<>>)
           \o (IF u = <<"g", "b", "p", "s">> /\ m > 10000 * FloatScale
               THEN <<Err("unrealistic_bandwidth", char_name)>> ELSE <<>>)
      ELSE <<>>)
  \o (IF Contains(<<"l", "a", "t", "e", "n", "c", "y">>, n) \/ Contains(<<"d", "e", "l", "a", "y">>, n)
      THEN (IF m < 0 THEN <<Err("latency_negative", char_name)>> ELSE <<>>)
           \o (IF u = <<"m", "s">> /\ m < FloatScale \div 1000
               THEN <<Err("unrealistic_latency", char_name)>> ELSE <<>>)
      ELSE <<>>)
  \o (IF Contains(<<"n", "u", "m", "b", "e", "r">>, n) \/ Contains(<<"c", "o", "u", "n", "t">>, n) \/ Contains(<<"d", "e", "n", "s", "i", "t", "y">>, n)
      THEN (IF m < 0 THEN <<Err("count_negative", char_name)>> ELSE <<>>)
           \o (IF value_type = "INTEGER" /\ m % FloatScale # 0
               THEN <<Err("count_not_whole", char_name)>> ELSE <<>>)
      ELSE <<>>)

ConstraintErrors(char_name, m, unit, value_type) ==
  ConstraintMessages(char_name, Lower(char_name), m, Lower(unit), value_type)

\* the constraints on numeric_value = float(str(value)); unit.lower() raises
\* AttributeError when unit is not a str
ConstraintResult(char_name, numeric_value, unit, value_type) ==
  IF value_type \notin {"INTEGER", "FLOAT"} THEN Ok(TRUE, <<>>)
  ELSE IF ~numeric_value.ok THEN Ok(TRUE, <<>>)
  ELSE IF unit.t # "str" THEN Raised("AttributeError")
  ELSE Ok(TRUE, ConstraintErrors(char_name, numeric_value.n, unit.s, value_type))

_validate_value_constraints(char_name, value, unit, value_type) ==
  ConstraintResult(char_name, ParseFloat(Str(value)), unit, value_type)

\* the table of interchangeable unit spellings
unit_variations(u) ==
  CASE u = <<"p", "e", "r", "c", "e", "n", "t">> -> <<"%">>
    [] u = <<"p", "e", "r", "c", "e", "n", "t", "a", "g", "e">> -> <<"%">>
    [] u = <<"m", "i", "l", "l", "i", "s", "e", "c", "o", "n", "d", "s">> -> <<"m", "s">>
    [] u = <<"m", "s", "e", "c">> -> <<"m", "s">>
    [] u = <<"m", "i", "l", "l", "i", "s", "e", "c", "o", "n", "d">> -> <<"m", "s">>
    [] OTHER -> u

\* the unit check without the table of interchangeable spellings
UnitErrorsExact(char_name, unit, expected_unit) ==
  IF Lower(unit) # Lower(expected_unit)
  THEN <<Err("unit_mismatch", char_name)>> ELSE <<>>

\* the unit check of validate_characteristics, for a truthy unit
UnitErrors(char_name, unit, expected_unit) ==
  IF Lower(unit) # Lower(expected_unit)
     /\ unit_variations(Lower(unit)) # unit_variations(Lower(expected_unit))
  THEN <<Err("unit_mismatch", char_name)>> ELSE <<>>

\* value and unit as validate_characteristics reads them from value_obj
ReadFrom(value_obj) ==
  IF value_obj.t = "dict"
  THEN [value |-> GetOr(value_obj.value, PyNone),
        unit |-> GetOr(value_obj.unitOfMeasure, PyStr(<<>>))]
  ELSE [value |-> value_obj, unit |-> PyStr(<<>>)]

\* value_obj = char.get('value', {}) and what is read from it
ReadValue(char) == ReadFrom(GetOr(char.value, ValueObj(Absent, Absent)))

\* the checks of one characteristic of registry entry gst_char, given the
\* outcome of the constraint check
CheckedValue(char_name, gst_char, rv, constraint) ==
  IF Truthy(gst_char.unitOfMeasure) /\ Truthy(rv.unit) /\ rv.unit.t # "str"
  THEN Raised("AttributeError")
  ELSE IF constraint.raised THEN constraint
  ELSE Ok(TRUE, _validate_value_type(char_name, rv.value, gst_char.valueType)
                \o (IF Truthy(gst_char.unitOfMeasure) /\ Truthy(rv.unit)
                    THEN UnitErrors(char_name, rv.unit.s, gst_char.unitOfMeasure.s)
                    ELSE <<>>)
                \o constraint.msgs)

CheckValue(char_name, gst_char, rv) ==
  CheckedValue(char_name, gst_char, rv,
               _validate_value_constraints(char_name, rv.value, rv.unit, gst_char.valueType))

\* one iteration of the loop of validate_characteristics
CharacteristicErrors(char) ==
  IF ~InRegistry(GetOr(char.name, PyNone))
  THEN Ok(FALSE, <<Err("not_found", Str(GetOr(char.name, PyNone)))>>)
  ELSE CheckValue(char.name.s, GstChar(char.name.s), ReadValue(char))

\* the loop of validate_characteristics: CharacteristicsLoop takes the next
\* characteristic, LoopStep continues after its outcome r
RECURSIVE CharacteristicsLoop(_, _)
RECURSIVE LoopStep(_, _, _)
CharacteristicsLoop(items, acc) ==
  IF items = <<>> THEN Ok(Len(acc) = 0, acc)
  ELSE LoopStep(CharacteristicErrors(Head(items)), Tail(items), acc)

LoopStep(r, rest, acc) ==
  IF r.raised THEN r ELSE CharacteristicsLoop(rest, acc \o r.msgs)

\* what `for char in chars` iterates over, or the exception it ends in: a str
\* yields its characters (which have no .get), None is not iterable
CharacteristicsOf(chars) ==
  CASE chars.t = "list" -> CharacteristicsLoop(chars.items, <<>>)
    [] chars.t = "str" -> IF chars.s = <<>> THEN Ok(TRUE, <<>>) ELSE Raised("AttributeError")
    [] OTHER -> Raised("TypeError")

validate_characteristics(d) == CharacteristicsOf(GetOr(d.chars, PyList(<<>>)))

\* char.get('value', {}).get(key, default): None when the value is missing or
\* has no such key; raises when the value is there and is not a dict
InnerGet(char, key, default) ==
  GetOr(GetOr(char.value, ValueObj(Absent, Absent))[key], default)

\* `value and isinstance(value, (int, float, str))`, then float(str(value))
PlausibleNumber(value) ==
  IF Truthy(value) /\ (IsNumber(value) \/ value.t = "str")
  THEN ParseFloat(Str(value))
  ELSE Failed

NameHas(char, kw) == Contains(kw, Lower(GetOr(char.name, PyStr(<<>>)).s))

\* the bandwidth pass: a unit that is not a str raises inside the try and is passed over
BandwidthFinding(v, unit) ==
  IF ~v.ok \/ unit.t # "str" THEN <<>>
  ELSE IF Contains(<<"g", "b", "p", "s">>, Lower(unit.s)) /\ v.n > 1000 * FloatScale
       THEN <<Err("high_bandwidth", FloatStr(v.n))>>
  ELSE IF Contains(<<"k", "b", "p", "s">>, Lower(unit.s)) /\ v.n < 1 * FloatScale
       THEN <<Err("low_bandwidth", FloatStr(v.n))>>
  ELSE <<>>

BandwidthWarning(char) ==
  BandwidthFinding(PlausibleNumber(InnerGet(char, "value", PyNone)),
                   InnerGet(char, "unitOfMeasure", PyStr(<<>>)))

LatencyFinding(v) ==
  IF ~v.ok THEN <<>>
  ELSE IF v.n < FloatScale \div 10 THEN <<Err("low_latency", FloatStr(v.n))>>
  ELSE IF v.n > 10000 * FloatScale THEN <<Err("high_latency", FloatStr(v.n))>>
  ELSE <<>>

LatencyWarning(char) == LatencyFinding(PlausibleNumber(InnerGet(char, "value", PyNone)))

AvailabilityFinding(v) ==
  IF v.ok /\ (v.n < 0 \/ v.n > 100 * FloatScale)
  THEN <<Err("availability_out_of_range", FloatStr(v.n))>>
  ELSE <<>>

AvailabilityWarning(char) ==
  AvailabilityFinding(PlausibleNumber(InnerGet(char, "value", PyNone)))

\* the finding of one pass for the characteristic c
Warning(c, pass) ==
  CASE pass = "bandwidth" ->
         IF NameHas(c, <<"b", "a", "n", "d", "w", "i", "d", "t", "h">>) \/ NameHas(c, <<"t", "h", "r", "o", "u", "g", "h", "p", "u", "t">>)
         THEN BandwidthWarning(c) ELSE <<>>
    [] pass = "latency" ->
         IF NameHas(c, <<"l", "a", "t", "e", "n", "c", "y">>) THEN LatencyWarning(c) ELSE <<>>
    [] OTHER ->
         IF NameHas(c, <<"a", "v", "a", "i", "l", "a", "b", "i", "l", "i", "t", "y">>) \/ NameHas(c, <<"r", "e", "l", "i", "a", "b", "i", "l", "i", "t", "y">>)
         THEN AvailabilityWarning(c) ELSE <<>>

\* one pass of validate_plausibility over the characteristics it selects
RECURSIVE WarningPass(_, _)
WarningPass(items, pass) ==
  IF items = <<>> THEN <<>>
  ELSE Warning(Head(items), pass) \o WarningPass(Tail(items), pass)

\* the passes one after the other
RECURSIVE Passes(_, _)
Passes(items, passes) ==
  IF passes = <<>> THEN <<>>
  ELSE WarningPass(items, Head(passes)) \o Passes(items, Tail(passes))

\* char_values = {char['name']: char.get('value', {}).get('value') ...} raises
\* KeyError for a characteristic without 'name' and AttributeError for a value
\* that is present and not a dict
CharValuesRaises(items) ==
  IF \E i \in 1..Len(items) :
       /\ \A j \in 1..(i - 1) : items[j].name.t # "absent" /\ items[j].value.t \in {"absent", "dict"}
       /\ items[i].name.t = "absent"
  THEN "KeyError"
  ELSE IF \E i \in 1..Len(items) : items[i].value.t \notin {"absent", "dict"}
  THEN "AttributeError"
  ELSE "none"

\* the exception of the given kind, or the result when the kind is none
RaisedOr(kind, result) == IF kind # "none" THEN Raised(kind) ELSE result

PlausibilityOf(chars) ==
  CASE chars.t = "list" ->
         RaisedOr(CharValuesRaises(chars.items),
                  Ok(TRUE, Passes(chars.items, <<"bandwidth", "latency", "availability">>)))
    [] chars.t = "str" -> IF chars.s = <<>> THEN Ok(TRUE, <<>>) ELSE Raised("TypeError")
    [] OTHER -> Raised("TypeError")

validate_plausibility(d) == PlausibilityOf(GetOr(d.chars, PyList(<<>>)))

\* the dict validate_all builds from the three results, or the exception one
\* of them ended in
Verdict(f, c, p) ==
  IF f.raised THEN f
  ELSE IF c.raised THEN c
  ELSE IF p.raised THEN p
  ELSE [raised |-> FALSE,
        format_valid |-> f.valid,
        characteristics_valid |-> c.valid,
        plausibility_valid |-> p.valid,
        errors |-> f.msgs \o c.msgs,
        warnings |-> p.msgs,
        overall_valid |-> f.valid /\ c.valid]

\* a verdict that a warning flips as well
VerdictWarningsCount(f, c, p) ==
  IF f.raised \/ c.raised \/ p.raised THEN Verdict(f, c, p)
  ELSE [Verdict(f, c, p) EXCEPT !.overall_valid = f.valid /\ c.valid /\ p.msgs = <<>>]

validate_all_warnings_count(d) ==
  VerdictWarningsCount(validate_format(d), validate_characteristics(d), validate_plausibility(d))

validate_all(d) ==
  Verdict(validate_format(d), validate_characteristics(d), validate_plausibility(d))

----------------------------------------------------------------------------
(* CharacteristicNameMapper (src/name_mapper.py).                          *)

\* self.valid_names, in registry order
valid_names == [i \in 1..Len(GST) |-> GST[i].name]

\* a result of None
NoName == [t |-> "none"]

KNOWN_MAPPINGS ==
  << <<<<"E", "2", "E", " ", "l", "a", "t", "e", "n", "c", "y">>, <<"D", "e", "l", "a", "y", " ", "t", "o", "l", "e", "r", "a", "n", "c", "e">>>>,
     <<<<"E", "n", "d", "-", "t", "o", "-", "e", "n", "d", " ", "l", "a", "t", "e", "n", "c", "y">>, <<"D", "e", "l", "a", "y", " ", "t", "o", "l", "e", "r", "a", "n", "c", "e">>>>,
     <<<<"L", "a", "t", "e", "n", "c", "y">>, <<"D", "e", "l", "a", "y", " ", "t", "o", "l", "e", "r", "a", "n", "c", "e">>>>,
     <<<<"E", "2", "E", " ", "L", "a", "t", "e", "n", "c", "y">>, <<"D", "e", "l", "a", "y", " ", "t", "o", "l", "e", "r", "a", "n", "c", "e">>>>,
     <<<<"N", "e", "t", "w", "o", "r", "k", " ", "l", "a", "t", "e", "n", "c", "y">>, <<"D", "e", "l", "a", "y", " ", "t", "o", "l", "e", "r", "a", "n", "c", "e">>>>,
     <<<<"B", "a", "n", "d", "w", "i", "d", "t", "h">>, <<"D", "o", "w", "n", "l", "i", "n", "k", " ", "t", "h", "r", "o", "u", "g", "h", "p", "u", "t", " ", "p", "e", "r", " ", "n", "e", "t", "w", "o", "r", "k", " ", "s", "l", "i", "c", "e", ":", " ", "M", "a", "x", "i", "m", "u", "m", " ", "d", "o", "w", "n", "l", "i", "n", "k", " ", "t", "h", "r", "o", "u", "g", "h", "p", "u", "t">>>>,
     <<<<"T", "h", "r", "o", "u", "g", "h", "p", "u", "t">>, <<"D", "o", "w", "n", "l", "i", "n", "k", " ", "t", "h", "r", "o", "u", "g", "h", "p", "u", "t", " ", "p", "e", "r", " ", "n", "e", "t", "w", "o", "r", "k", " ", "s", "l", "i", "c", "e", ":", " ", "M", "a", "x", "i", "m", "u", "m", " ", "d", "o", "w", "n", "l", "i", "n", "k", " ", "t", "h", "r", "o", "u", "g", "h", "p", "u", "t">>>>,
     <<<<"D", "a", "t", "a", " ", "r", "a", "t", "e">>, <<"D", "o", "w", "n", "l", "i", "n", "k", " ", "t", "h", "r", "o", "u", "g", "h", "p", "u", "t", " ", "p", "e", "r", " ", "n", "e", "t", "w", "o", "r", "k", " ", "s", "l", "i", "c", "e", ":", " ", "M", "a", "x", "i", "m", "u", "m", " ", "d", "o", "w", "n", "l", "i", "n", "k", " ", "t", "h", "r", "o", "u", "g", "h", "p", "u", "t">>>>,
     <<<<"U", "p", "t", "i", "m", "e">>, <<"A", "v", "a", "i", "l", "a", "b", "i", "l", "i", "t", "y">>>>,
     <<<<"R", "e", "l", "i", "a", "b", "i", "l", "i", "t", "y">>, <<"A", "v", "a", "i", "l", "a", "b", "i", "l", "i", "t", "y">>>>,
     <<<<"S", "e", "r", "v", "i", "c", "e", " ", "a", "v", "a", "i", "l", "a", "b", "i", "l", "i", "t", "y">>, <<"A", "v", "a", "i", "l", "a", "b", "i", "l", "i", "t", "y">>>>,
     <<<<"N", "u", "m", "b", "e", "r", " ", "o", "f", " ", "u", "s", "e", "r", "s">>, <<"N", "u", "m", "b", "e", "r", " ", "o", "f", " ", "U", "E", "s", " ", "p", "e", "r", " ", "n", "e", "t", "w", "o", "r", "k", " ", "s", "l", "i", "c", "e">>>>,
     <<<<"U", "s", "e", "r", " ", "c", "o", "u", "n", "t">>, <<"N", "u", "m", "b", "e", "r", " ", "o", "f", " ", "U", "E", "s", " ", "p", "e", "r", " ", "n", "e", "t", "w", "o", "r", "k", " ", "s", "l", "i", "c", "e">>>>,
     <<<<"C", "o", "n", "c", "u", "r", "r", "e", "n", "t", " ", "u", "s", "e", "r", "s">>, <<"N", "u", "m", "b", "e", "r", " ", "o", "f", " ", "U", "E", "s", " ", "p", "e", "r", " ", "n", "e", "t", "w", "o", "r", "k", " ", "s", "l", "i", "c", "e">>>> >>

IsKnownMapping(name) == \E i \in 1..Len(KNOWN_MAPPINGS) : KNOWN_MAPPINGS[i][1] = name

KnownMapping(name) ==
  KNOWN_MAPPINGS[CHOOSE i \in 1..Len(KNOWN_MAPPINGS) : KNOWN_MAPPINGS[i][1] = name][2]

\* the default similarity threshold of correct_name, 0.6, as a fraction
ThresholdNum == 6

ThresholdDen == 10

\* characters in code point order, for the comparison of two str
AsciiOrder == <<" ", "%", ",", "-", ".", "0", "1", "2", "3", "4", "5", "6", "7", "8", "9", ":", "A", "B", "C", "D", "E", "F", "G", "H", "I", "J", "K", "L", "M", "N", "O", "P", "Q", "R", "S", "T", "U", "V", "W", "X", "Y", "Z", "a", "b", "c", "d", "e", "f", "g", "h", "i", "j", "k", "l", "m", "n", "o", "p", "q", "r", "s", "t", "u", "v", "w", "x", "y", "z">>

Ord(c) == CHOOSE i \in 1..Len(AsciiOrder) : AsciiOrder[i] = c

\* x < y for two str
RECURSIVE StrLess(_, _)
StrLess(x, y) ==
  IF y = <<>> THEN FALSE
  ELSE IF x = <<>> THEN TRUE
  ELSE IF Head(x) # Head(y) THEN Ord(Head(x)) < Ord(Head(y))
  ELSE StrLess(Tail(x), Tail(y))

\* length of the common run of a from i and b from j, within a[..ahi], b[..bhi]
RECURSIVE RunLen(_, _, _, _, _, _)
RunLen(a, b, i, j, ahi, bhi) ==
  IF i > ahi \/ j > bhi \/ a[i] # b[j] THEN 0
  ELSE 1 + RunLen(a, b, i + 1, j + 1, ahi, bhi)

\* of the common runs, the longest; of the longest, the one starting earliest
\* in a, then in b
LongestRun(runs, alo, blo) ==
  IF runs = {} THEN [i |-> alo, j |-> blo, k |-> 0]
  ELSE CHOOSE m \in runs :
         \A r \in runs :
           \/ m.k > r.k
           \/ m.k = r.k /\ (m.i < r.i \/ (m.i = r.i /\ m.j <= r.j))

\* SequenceMatcher.find_longest_match: the longest block common to a[alo..ahi]
\* and b[blo..bhi]
find_longest_match(a, b, alo, ahi, blo, bhi) ==
  LongestRun({[i |-> c[1], j |-> c[2], k |-> RunLen(a, b, c[1], c[2], ahi, bhi)] :
                c \in {d \in (alo..ahi) \X (blo..bhi) : a[d[1]] = b[d[2]]}},
             alo, blo)

\* total size of SequenceMatcher.get_matching_blocks: the longest block m,
\* then the same to its left and to its right
RECURSIVE MatchingSize(_, _, _, _, _, _)
RECURSIVE AroundBlock(_, _, _, _, _, _, _)
MatchingSize(a, b, alo, ahi, blo, bhi) ==
  IF alo > ahi \/ blo > bhi THEN 0
  ELSE AroundBlock(a, b, alo, ahi, blo, bhi, find_longest_match(a, b, alo, ahi, blo, bhi))

AroundBlock(a, b, alo, ahi, blo, bhi, m) ==
  IF m.k = 0 THEN 0
  ELSE m.k + MatchingSize(a, b, alo, m.i - 1, blo, m.j - 1)
           + MatchingSize(a, b, m.i + m.k, ahi, m.j + m.k, bhi)

\* SequenceMatcher(a = candidate, b = word).ratio() = 2 M / T, as the pair <<2 M, T>>
Ratio(candidate, word) ==
  <<2 * MatchingSize(candidate, word, 1, Len(candidate), 1, Len(word)),
    Len(candidate) + Len(word)>>

\* ratio >= cutoff; two empty strings have ratio 1
ClearsCutoff(r) == r[2] = 0 \/ r[1] * ThresholdDen >= ThresholdNum * r[2]

\* (score, x) < (score2, x2) for the tuples get_close_matches ranks
ScoreLess(r, x, r2, x2) ==
  LET lt == IF r[2] = 0 \/ r2[2] = 0 THEN r[2] # 0 /\ r2[2] = 0
            ELSE r[1] * r2[2] < r2[1] * r[2]
      eq == IF r[2] = 0 \/ r2[2] = 0 THEN r[2] = r2[2]
            ELSE r[1] * r2[2] = r2[1] * r[2]
  IN  lt \/ (eq /\ StrLess(x, x2))

\* of the candidates whose ratio clears the cutoff, the one of the greatest
\* (score, candidate)
BestMatch(possibilities, ratios) ==
  LET close == {i \in 1..Len(possibilities) : ClearsCutoff(ratios[i])}
  IN  IF close = {} THEN <<>>
      ELSE <<possibilities[CHOOSE i \in close :
                             \A j \in close :
                               ~ScoreLess(ratios[i], possibilities[i],
                                          ratios[j], possibilities[j])]>>

\* difflib.get_close_matches(name, valid_names, n=1, cutoff)
get_close_matches(name, possibilities) ==
  BestMatch(possibilities, [i \in 1..Len(possibilities) |-> Ratio(possibilities[i], name)])

\* the first valid name containing name_lower or contained in it, accepted
\* when the name has more than 3 characters
FirstContaining(name_lower) ==
  LET hits == {i \in 1..Len(valid_names) :
                 /\ \/ Contains(name_lower, Lower(valid_names[i]))
                    \/ Contains(Lower(valid_names[i]), name_lower)
                 /\ Len(name_lower) > 3}
  IN  IF hits = {} THEN NoName
      ELSE PyStr(valid_names[CHOOSE i \in hits : \A j \in hits : i <= j])

\* the partial-match loop of correct_name
PartialMatch(name) == FirstContaining(Lower(name))

\* the resolution with the similarity search ahead of the table
FuzzyFirst(name, matches) ==
  IF \E i \in 1..Len(valid_names) : valid_names[i] = name THEN PyStr(name)
  ELSE IF matches # <<>> THEN PyStr(matches[1])
  ELSE IF IsKnownMapping(name) THEN PyStr(KnownMapping(name))
  ELSE PartialMatch(name)

correct_name_fuzzy_first(name) == FuzzyFirst(name, get_close_matches(name, valid_names))

\* the steps of correct_name, matches being the result of get_close_matches
FirstMatch(name, matches) ==
  IF \E i \in 1..Len(valid_names) : valid_names[i] = name THEN PyStr(name)
  ELSE IF IsKnownMapping(name) THEN PyStr(KnownMapping(name))
  ELSE IF matches # <<>> THEN PyStr(matches[1])
  ELSE PartialMatch(name)

correct_name(name) == FirstMatch(name, get_close_matches(name, valid_names))

\* self.correct_name(original_name), reached for a truthy name only
ResolvedName(original_name) ==
  IF Truthy(original_name) THEN correct_name(original_name.s) ELSE NoName

\* the loop of correct_intent over the characteristics, renaming in place:
\* CorrectLoop takes the next characteristic, Rename acts on its corrected name
RECURSIVE CorrectLoop(_, _, _)
RECURSIVE Rename(_, _, _, _, _, _)
CorrectLoop(items, done, corrections) ==
  IF items = <<>> THEN [items |-> done, corrections |-> corrections]
  ELSE Rename(Head(items), GetOr(Head(items).name, PyNone),
              ResolvedName(GetOr(Head(items).name, PyNone)), Tail(items), done, corrections)

Rename(char, original_name, corrected_name, rest, done, corrections) ==
  IF Truthy(original_name) /\ Truthy(corrected_name) /\ corrected_name # original_name
  THEN CorrectLoop(rest,
                   Append(done, [char EXCEPT !.name = corrected_name]),
                   Append(corrections, <<original_name.s, corrected_name.s>>))
  ELSE CorrectLoop(rest, Append(done, char), corrections)

\* the record and the corrections after the loop
Corrected(d, r) ==
  [raised |-> FALSE, intent |-> [d EXCEPT !.chars = PyList(r.items)], corrections |-> r.corrections]

\* correct_intent: (intent, corrections), or the exception of iterating a
\* serviceSpecCharacteristic that is not a list of dicts
correct_intent(d) ==
  CASE d.chars.t = "absent" -> [raised |-> FALSE, intent |-> d, corrections |-> <<>>]
    [] d.chars.t = "list" -> Corrected(d, CorrectLoop(d.chars.items, <<>>, <<>>))
    [] d.chars.t = "str" ->
         IF d.chars.s = <<>> THEN [raised |-> FALSE, intent |-> d, corrections |-> <<>>]
         ELSE Raised("AttributeError")
    [] OTHER -> Raised("TypeError")

----------------------------------------------------------------------------
(* TMF921TypeCorrector (src/src/tmf921/post_processing/type_corrector.py). *)

\* self.characteristic_types[name]
characteristic_types(name) == GstChar(name).valueType

\* an entry of corrections_made
Correction(kind, char_name, from, to) ==
  [kind |-> kind, name |-> char_name, from |-> from, to |-> to]

\* the outcome of one _fix_*_type call: the value now held and what was logged
Kept(v) == [value |-> v, corrections |-> <<>>]

Fixed(kind, char_name, from, to) ==
  [value |-> to, corrections |-> <<Correction(kind, char_name, from, to)>>]

\* index of the first occurrence of sep in s at or after position i, 0 if none
FindFrom(s, sep, i) ==
  LET at == {k \in i..(Len(s) - Len(sep) + 1) : SubSeq(s, k, k + Len(sep) - 1) = sep}
  IN  IF at = {} THEN 0 ELSE CHOOSE k \in at : \A j \in at : k <= j

\* str.split(sep)
RECURSIVE Split(_, _)
Split(s, sep) ==
  LET k == FindFrom(s, sep, 1)
  IN  IF k = 0 THEN <<s>>
      ELSE <<SubSeq(s, 1, k - 1)>> \o Split(SubSeq(s, k + Len(sep), Len(s)), sep)

\* [v.strip() for v in parts], as a list of str
StripAll(parts) == [i \in 1..Len(parts) |-> PyStr(Strip(parts[i]))]

\* a list wrapped again instead of being kept
_fix_set_type_rewraps(char_name, current_value) ==
  CASE current_value.t = "list" ->
         Fixed("SET", char_name, current_value, PyList(<<current_value>>))
    [] current_value.t = "str" ->
         Fixed("SET", char_name, current_value, PyList(<<current_value>>))
    [] OTHER -> Kept(current_value)

_fix_set_type(char_name, current_value) ==
  CASE current_value.t = "list" -> Kept(current_value)
    [] current_value.t = "str" ->
         LET s == current_value.s
             new_value ==
               IF Contains(<<",", " ">>, s) THEN PyList(StripAll(Split(s, <<",", " ">>)))
               ELSE IF Contains(<<",">>, s) THEN PyList(StripAll(Split(s, <<",">>)))
               ELSE PyList(<<current_value>>)
         IN  Fixed("SET", char_name, current_value, new_value)
    [] IsNumber(current_value) ->
         Fixed("SET", char_name, current_value, PyList(<<PyStr(Str(current_value))>>))
    [] OTHER -> Kept(current_value)

\* a text that does not parse standing for False
BinaryOfDefaultFalse(lower_value, numeric_value) ==
  lower_value \in {<<"s", "u", "p", "p", "o", "r", "t", "e", "d">>, <<"y", "e", "s">>, <<"t", "r", "u", "e">>, <<"e", "n", "a", "b", "l", "e", "d">>, <<"a", "v", "a", "i", "l", "a", "b", "l", "e">>, <<"1">>}
  \/ (/\ lower_value \notin {<<"n", "o", "t", " ", "s", "u", "p", "p", "o", "r", "t", "e", "d">>, <<"n", "o">>, <<"f", "a", "l", "s", "e">>, <<"d", "i", "s", "a", "b", "l", "e", "d">>,
                              <<"u", "n", "a", "v", "a", "i", "l", "a", "b", "l", "e">>, <<"0">>}
      /\ numeric_value.ok /\ numeric_value.n > 0)

\* the bool a str stands for: lower_value is the text lowered and stripped,
\* numeric_value the float it parses to, if it does
BinaryOf(lower_value, numeric_value) ==
  IF lower_value \in {<<"s", "u", "p", "p", "o", "r", "t", "e", "d">>, <<"y", "e", "s">>, <<"t", "r", "u", "e">>, <<"e", "n", "a", "b", "l", "e", "d">>, <<"a", "v", "a", "i", "l", "a", "b", "l", "e">>, <<"1">>}
  THEN TRUE
  ELSE IF lower_value \in {<<"n", "o", "t", " ", "s", "u", "p", "p", "o", "r", "t", "e", "d">>, <<"n", "o">>, <<"f", "a", "l", "s", "e">>, <<"d", "i", "s", "a", "b", "l", "e", "d">>,
                           <<"u", "n", "a", "v", "a", "i", "l", "a", "b", "l", "e">>, <<"0">>}
  THEN FALSE
  ELSE IF numeric_value.ok THEN numeric_value.n > 0
  ELSE TRUE

\* every number but zero standing for True
_fix_binary_type_nonzero(char_name, current_value) ==
  CASE current_value.t = "bool" -> Kept(current_value)
    [] current_value.t = "str" ->
         Fixed("BINARY", char_name, current_value,
               PyBool(BinaryOf(Strip(Lower(current_value.s)), ParseFloat(current_value.s))))
    [] current_value.t = "int" ->
         Fixed("BINARY", char_name, current_value, PyBool(current_value.n # 0))
    [] current_value.t = "float" ->
         Fixed("BINARY", char_name, current_value, PyBool(current_value.m # 0))
    [] OTHER -> Kept(current_value)

_fix_binary_type(char_name, current_value) ==
  CASE current_value.t = "bool" -> Kept(current_value)
    [] current_value.t = "str" ->
         Fixed("BINARY", char_name, current_value,
               PyBool(BinaryOf(Strip(Lower(current_value.s)), ParseFloat(current_value.s))))
    [] current_value.t = "int" ->
         Fixed("BINARY", char_name, current_value, PyBool(current_value.n > 0))
    [] current_value.t = "float" ->
         Fixed("BINARY", char_name, current_value, PyBool(current_value.m > 0))
    [] OTHER -> Kept(current_value)

\* round(f) for a float: to the nearest integer, a tie to the even one
Round(m) ==
  LET q == m \div FloatScale
      r == m % FloatScale
  IN  IF 2 * r < FloatScale THEN q
      ELSE IF 2 * r > FloatScale THEN q + 1
      ELSE IF q % 2 = 0 THEN q ELSE q + 1

\* current_value != new_value for an int new_value: a str never equals an
\* int, a float equals the int of the same value
DiffersFromInt(current_value, n) ==
  IF current_value.t = "float" THEN current_value.m # n * FloatScale ELSE TRUE

\* round(float(s)) for a parsed float
Rounded(parsed) == IF parsed.ok THEN Parsed(Round(parsed.n)) ELSE Failed

\* the rewrite to the int that was parsed, if one was and it differs
FixedToInt(char_name, current_value, parsed) ==
  IF parsed.ok /\ DiffersFromInt(current_value, parsed.n)
  THEN Fixed("INTEGER", char_name, current_value, PyInt(parsed.n))
  ELSE Kept(current_value)

_fix_integer_type(char_name, current_value) ==
  CASE current_value.t = "int" -> Kept(current_value)
    [] current_value.t = "str" ->
         FixedToInt(char_name, current_value,
                    IF Contains(<<".">>, current_value.s)
                    THEN Rounded(ParseFloat(current_value.s))
                    ELSE ParseInt(current_value.s))
    [] current_value.t = "float" ->
         FixedToInt(char_name, current_value, Parsed(Round(current_value.m)))
    [] OTHER -> Kept(current_value)

\* the rewrite to the float that was parsed, if one was and its str differs
FixedToFloat(char_name, current_value, new_value) ==
  IF new_value.ok /\ current_value.s # FloatStr(new_value.n)
  THEN Fixed("FLOAT", char_name, current_value, PyFloat(new_value.n))
  ELSE Kept(current_value)

\* a FLOAT repair that leaves every value as it is
_fix_float_type_keeps(char_name, current_value) == Kept(current_value)

_fix_float_type(char_name, current_value) ==
  CASE current_value.t \in {"int", "float"} -> Kept(current_value)
    [] current_value.t = "str" ->
         FixedToFloat(char_name, current_value, ParseFloat(current_value.s))
    [] OTHER -> Kept(current_value)

\* the _fix_*_type method of the expected type
FixOf(expected_type, char_name, current_value) ==
  CASE expected_type = "SET" -> _fix_set_type(char_name, current_value)
    [] expected_type = "BINARY" -> _fix_binary_type(char_name, current_value)
    [] expected_type = "INTEGER" -> _fix_integer_type(char_name, current_value)
    [] OTHER -> _fix_float_type(char_name, current_value)

\* a rewrite that stores a fresh value object and loses the unit
RewrittenWithoutUnit(char, r) ==
  [raised |-> FALSE,
   char |-> IF r.corrections = <<>> THEN char
            ELSE [char EXCEPT !.value = ValueObj(r.value, Absent)],
   corrections |-> r.corrections]

\* the characteristic after the call r of its _fix_*_type method
Rewritten(char, r) ==
  [raised |-> FALSE,
   char |-> IF r.corrections = <<>> THEN char
            ELSE [char EXCEPT !.value = [@ EXCEPT !.value = r.value]],
   corrections |-> r.corrections]

\* the body of the loop of fix_intent_types for one characteristic:
\* value_obj = char.get('value', {}); current_value = value_obj.get('value')
\* raises AttributeError when the value is present and is not a dict
FixChar(char) ==
  IF ~InRegistry(GetOr(char.name, PyNone))
  THEN [raised |-> FALSE, char |-> char, corrections |-> <<>>]
  ELSE IF characteristic_types(char.name.s) \notin {"SET", "BINARY", "INTEGER", "FLOAT"}
  THEN [raised |-> FALSE, char |-> char, corrections |-> <<>>]
  ELSE IF char.value.t \notin {"absent", "dict"}
  THEN [raised |-> TRUE, char |-> char, corrections |-> <<>>]
  ELSE Rewritten(char, FixOf(characteristic_types(char.name.s), char.name.s,
                             IF char.value.t = "absent" THEN PyNone
                             ELSE GetOr(char.value.value, PyNone)))

\* the loop of fix_intent_types: the characteristics are rewritten in place,
\* so what was fixed before an exception stays fixed; FixLoop takes the next
\* characteristic, FixStep continues after its outcome r
RECURSIVE FixLoop(_, _, _)
RECURSIVE FixStep(_, _, _, _)
FixLoop(items, done, corrections) ==
  IF items = <<>> THEN [raised |-> FALSE, items |-> done, corrections |-> corrections]
  ELSE FixStep(FixChar(Head(items)), items, done, corrections)

FixStep(r, items, done, corrections) ==
  IF r.raised
  THEN [raised |-> TRUE, exc |-> "AttributeError",
        items |-> done \o items, corrections |-> corrections]
  ELSE FixLoop(Tail(items), Append(done, r.char), corrections \o r.corrections)

\* the record and the corrections after the loop, or the exception it ended
\* in with the record as far as it was rewritten
Fixes(d, r) ==
  IF r.raised
  THEN [raised |-> TRUE, exc |-> r.exc,
        intent |-> [d EXCEPT !.chars = PyList(r.items)],
        corrections |-> r.corrections]
  ELSE [raised |-> FALSE,
        intent |-> [d EXCEPT !.chars = PyList(r.items)],
        corrections |-> r.corrections]

\* TMF921TypeCorrector.fix_intent_types: (intent, corrections_made)
fix_intent_types(d) ==
  CASE d.chars.t = "absent" -> [raised |-> FALSE, intent |-> d, corrections |-> <<>>]
    [] d.chars.t = "list" -> Fixes(d, FixLoop(d.chars.items, <<>>, <<>>))
    [] d.chars.t = "str" ->
         IF d.chars.s = <<>> THEN [raised |-> FALSE, intent |-> d, corrections |-> <<>>]
         ELSE [raised |-> TRUE, exc |-> "AttributeError", intent |-> d, corrections |-> <<>>]
    [] OTHER -> [raised |-> TRUE, exc |-> "TypeError", intent |-> d, corrections |-> <<>>]

----------------------------------------------------------------------------
(* OllamaClient.extract_json (src/src/tmf921/core/client.py).              *)
(* A response text is a sequence of tokens: the fence of three backticks,  *)
(* the word json, braces, a complete member "a":1 (m1, m2, ...), a key     *)
(* with its colon (k), a comma, a prose word (x), white space, the literal *)
(* two characters backslash-n, and the JSON literals null, 7 and [1].      *)

Fence == "FENCE"

JsonWord == "json"

BackslashN == "\\n"

IsWs(tok) == tok \in {" ", "\n"}

Members == {"m1", "m2", "m3", "m4"}

\* the tokens that are one character long
IsOneChar(tok) == tok \in {"{", "}", ",", "x", " ", "\n", "7"}

\* a JSON object with its members in order
JObject(members) == [t |-> "dict", members |-> members]

JMember(key, val) == [key |-> key, val |-> val]

\* the Python value of a literal token
Literal(tok) ==
  CASE tok = "null" -> [t |-> "none"]
    [] tok = "7" -> [t |-> "int", n |-> 7]
    [] OTHER -> [t |-> "list", items |-> <<[t |-> "int", n |-> 1]>>]

NoParse == [ok |-> FALSE, val |-> [t |-> "none"], next |-> 0]

\* the tokens of s that are not white space
NoWs(s) ==
  LET keep == {i \in 1..Len(s) : ~IsWs(s[i])}
      nth(k) == CHOOSE i \in keep : Cardinality({j \in keep : j < i}) = k - 1
  IN  [k \in 1..Cardinality(keep) |-> s[nth(k)]]

\* the member of key k whose value was parsed as v
KeyedMember(v) == [ok |-> v.ok, val |-> JMember("k", v.val), next |-> v.next]

\* the JSON grammar: ParseValue reads one value of w from position i,
\* ParseMembers the members of an object up to its closing brace
RECURSIVE ParseValue(_, _)
RECURSIVE ParseMembers(_, _, _)
RECURSIVE AfterMember(_, _, _)
ParseValue(w, i) ==
  IF i > Len(w) THEN NoParse
  ELSE IF w[i] \in {"null", "7", "[1]"} THEN [ok |-> TRUE, val |-> Literal(w[i]), next |-> i + 1]
  ELSE IF w[i] # "{" THEN NoParse
  ELSE IF i + 1 <= Len(w) /\ w[i + 1] = "}"
       THEN [ok |-> TRUE, val |-> JObject(<<>>), next |-> i + 2]
  ELSE ParseMembers(w, i + 1, <<>>)

ParseMembers(w, i, acc) ==
  IF i > Len(w) THEN NoParse
  ELSE IF w[i] \in Members
  THEN AfterMember(w, [ok |-> TRUE, val |-> JMember(w[i], [t |-> "member"]), next |-> i + 1], acc)
  ELSE IF w[i] = "k" THEN AfterMember(w, KeyedMember(ParseValue(w, i + 1)), acc)
  ELSE NoParse

\* what follows the member m: the closing brace, or a comma and more members
AfterMember(w, m, acc) ==
  IF ~m.ok \/ m.next > Len(w) THEN NoParse
  ELSE IF w[m.next] = "}"
       THEN [ok |-> TRUE, val |-> JObject(Append(acc, m.val)), next |-> m.next + 1]
  ELSE IF w[m.next] = ","
       THEN ParseMembers(w, m.next + 1, Append(acc, m.val))
  ELSE NoParse

\* the value r when it takes all n tokens
Complete(r, n) ==
  IF r.ok /\ r.next = n + 1 THEN [ok |-> TRUE, val |-> r.val]
  ELSE [ok |-> FALSE, val |-> [t |-> "none"]]

\* the value when the whole of w, free of white space, is one JSON value
Whole(w) == Complete(ParseValue(w, 1), Len(w))

\* json.loads(s)
json_loads(s) == Whole(NoWs(s))

\* str.strip() on a token sequence
RECURSIVE StripTokens(_)
StripTokens(s) ==
  IF s # <<>> /\ IsWs(s[1]) THEN StripTokens(Tail(s))
  ELSE IF s # <<>> /\ IsWs(s[Len(s)]) THEN StripTokens(SubSeq(s, 1, Len(s) - 1))
  ELSE s

\* position of the first token tok at or after position i, 0 when there is none
FindToken(s, tok, i) ==
  LET at == {k \in i..Len(s) : s[k] = tok}
  IN  IF at = {} THEN 0 ELSE CHOOSE k \in at : \A j \in at : k <= j

\* response_text.find("```json"): the first fence directly followed by json
FindJsonFence(s) ==
  LET at == {k \in 1..(Len(s) - 1) : s[k] = Fence /\ s[k + 1] = JsonWord}
  IN  IF at = {} THEN 0 ELSE CHOOSE k \in at : \A j \in at : k <= j

\* response_text[start:end] with end = find("```", start): up to the closing
\* fence, or, when find returns -1, up to and without the last character
FenceSlice(s, start) ==
  LET end == FindToken(s, Fence, start)
  IN  IF end # 0 THEN SubSeq(s, start, end - 1)
      ELSE IF start > Len(s) THEN <<>>
      ELSE IF IsOneChar(s[Len(s)]) THEN SubSeq(s, start, Len(s) - 1)
      ELSE SubSeq(s, start, Len(s) - 1) \o <<"?">>

\* strategy 1: the whole text
DirectParse(s) == json_loads(s)

\* the content after the json fence at position at, if there is one
AfterJsonFence(s, at) ==
  IF at = 0 THEN [ok |-> FALSE, val |-> [t |-> "none"]]
  ELSE json_loads(StripTokens(FenceSlice(s, at + 2)))

\* strategy 2: the content of the first ```json block
JsonFenceParse(s) == AfterJsonFence(s, FindJsonFence(s))

\* the language line is dropped: what follows the cut, cut being the position
\* of the first backslash-n and the first piece being a language identifier
WithoutLanguage(json_str, cut) ==
  IF StripTokens(IF cut = 0 THEN json_str ELSE SubSeq(json_str, 1, cut - 1)) = <<JsonWord>>
  THEN (IF cut = 0 THEN <<>> ELSE SubSeq(json_str, cut + 1, Len(json_str)))
  ELSE json_str

\* json_str.split('\\n') cuts at the two characters backslash-n, not at a
\* line end; the first piece is dropped when it is a language identifier
DropLanguageLine(json_str) == WithoutLanguage(json_str, FindToken(json_str, BackslashN, 1))

\* the content after the fence at position at, if there is one
AfterFence(s, at) ==
  IF at = 0 THEN [ok |-> FALSE, val |-> [t |-> "none"]]
  ELSE json_loads(DropLanguageLine(StripTokens(FenceSlice(s, at + 1))))

\* strategy 3: the content of the first fenced block of any kind
AnyFenceParse(s) == AfterFence(s, FindToken(s, Fence, 1))

\* brace_count after the tokens s[start..i]
BraceCount(s, start, i) ==
  Cardinality({k \in start..i : s[k] = "{"}) - Cardinality({k \in start..i : s[k] = "}"})

\* the span from start_idx to the first brace that brings the count to zero
BraceSpan(s, start_idx) ==
  LET closes == {i \in start_idx..Len(s) : s[i] = "}" /\ BraceCount(s, start_idx, i) = 0}
  IN  IF start_idx = 0 \/ closes = {} THEN [ok |-> FALSE, val |-> [t |-> "none"]]
      ELSE json_loads(SubSeq(s, start_idx, CHOOSE i \in closes : \A j \in closes : i <= j))

\* strategy 4: from the first opening brace to the brace that closes it
BraceParse(s) == BraceSpan(s, FindToken(s, "{", 1))

\* the four strategies in the order extract_json tries them
Strategies(s) == <<DirectParse(s), JsonFenceParse(s), AnyFenceParse(s), BraceParse(s)>>

\* the strategies tried from the last to the first
LastReturningStrategy(tried) ==
  LET won == {i \in 1..Len(tried) : tried[i].ok}
  IN  IF won = {} THEN 0 ELSE CHOOSE i \in won : \A j \in won : i >= j

\* the number of the strategy that returns, 0 when none does
ReturningStrategy(tried) ==
  LET won == {i \in 1..Len(tried) : tried[i].ok}
  IN  IF won = {} THEN 0 ELSE CHOOSE i \in won : \A j \in won : i <= j

\* the value of the strategy that returns, None when none does
Returned(tried) ==
  IF ReturningStrategy(tried) = 0 THEN [t |-> "none"]
  ELSE tried[ReturningStrategy(tried)].val

extract_json(s) == Returned(Strategies(s))

----------------------------------------------------------------------------
(* SimpleToICMConverter and ICMToSimpleConverter                           *)
(* (src/src/tmf921/icm/converter.py).  An @id such as '#intent-3' is the   *)
(* pair of its prefix and its number.                                       *)

\* s.endswith(suffix)
EndsWith(s, suffix) ==
  Len(s) >= Len(suffix) /\ SubSeq(s, Len(s) - Len(suffix) + 1, Len(s)) = suffix

\* _infer_operator: the quantity operator the name stands for
_infer_operator(char_name) ==
  IF \E kw \in {<<"m", "a", "x", "i", "m", "u", "m">>, <<"m", "a", "x">>, <<"t", "o", "l", "e", "r", "a", "n", "c", "e">>, <<"d", "e", "l", "a", "y">>, <<"l", "a", "t", "e", "n", "c", "y">>} :
       Contains(kw, Lower(char_name))
  THEN "quan:smaller"
  ELSE IF \E kw \in {<<"m", "i", "n", "i", "m", "u", "m">>, <<"m", "i", "n">>, <<"g", "u", "a", "r", "a", "n", "t", "e", "e", "d">>, <<"b", "a", "n", "d", "w", "i", "d", "t", "h">>} :
            Contains(kw, Lower(char_name))
  THEN "quan:greater"
  ELSE "quan:equal"

\* the suffixes _normalize_property_name removes, in the order it tries them
PropertySuffixes == <<<<" ", "t", "o", "l", "e", "r", "a", "n", "c", "e">>, <<" ", "g", "u", "a", "r", "a", "n", "t", "e", "e", "d">>, <<" ", "m", "i", "n", "i", "m", "u", "m">>, <<" ", "m", "a", "x", "i", "m", "u", "m">>>>

RECURSIVE RemoveSuffixes(_, _)
RemoveSuffixes(name, k) ==
  IF k > Len(PropertySuffixes) THEN name
  ELSE RemoveSuffixes(IF EndsWith(Lower(name), PropertySuffixes[k])
                      THEN SubSeq(name, 1, Len(name) - Len(PropertySuffixes[k]))
                      ELSE name, k + 1)

\* _normalize_property_name
_normalize_property_name(char_name) == Strip(RemoveSuffixes(char_name, 1))

\* _parse_value: int(v) when str(v) has no point, float(v) otherwise, and v
\* itself when the conversion raises ValueError or TypeError
_parse_value(v) ==
  CASE v.t = "str" ->
         IF ~Contains(<<".">>, v.s)
         THEN (IF ParseInt(v.s).ok THEN PyInt(ParseInt(v.s).n) ELSE v)
         ELSE (IF ParseFloat(v.s).ok THEN PyFloat(ParseFloat(v.s).n) ELSE v)
    [] v.t = "bool" -> PyInt(IF v.b THEN 1 ELSE 0)
    [] OTHER -> v

\* _convert_characteristic_to_expectation
_convert_characteristic_to_expectation(characteristic, expectation_id, target_id) ==
  IF GetOr(characteristic.name, PyStr(<<>>)).t # "str" THEN Raised("AttributeError")
  ELSE IF characteristic.value.t \notin {"absent", "dict"} THEN Raised("AttributeError")
  ELSE [raised |-> FALSE,
        type |-> "icm:PropertyExpectation",
        id |-> expectation_id,
        target |-> target_id,
        operator |-> _infer_operator(GetOr(characteristic.name, PyStr(<<>>)).s),
        property |-> _normalize_property_name(GetOr(characteristic.name, PyStr(<<>>)).s),
        value |-> _parse_value(IF characteristic.value.t = "absent" THEN PyStr(<<>>)
                               ELSE GetOr(characteristic.value.value, PyStr(<<>>))),
        unit |-> IF characteristic.value.t = "absent" THEN PyStr(<<>>)
                 ELSE GetOr(characteristic.value.unitOfMeasure, PyStr(<<>>))]

\* the loop of convert over the characteristics from position k: the
\* expectations appended and the counter, or the exception that ends it
RECURSIVE Expectations(_, _, _, _, _)
Expectations(items, k, counter, target_id, done) ==
  IF k > Len(items) THEN [raised |-> FALSE, counter |-> counter, expectations |-> done]
  ELSE IF _convert_characteristic_to_expectation(
            items[k], <<"#expectation-", counter + 1>>, target_id).raised
  THEN [raised |-> TRUE, exc |-> "AttributeError", counter |-> counter + 1]
  ELSE Expectations(items, k + 1, counter + 1, target_id,
                    Append(done, _convert_characteristic_to_expectation(
                                   items[k], <<"#expectation-", counter + 1>>, target_id)))

\* the loop over simple_json.get("serviceSpecCharacteristic", []): a list is
\* walked, a missing key is the empty list, None cannot be iterated, and the
\* characters of a str have no get
ExpectationsOf(chars, counter, target_id) ==
  CASE chars.t = "list" -> Expectations(chars.items, 1, counter, target_id, <<>>)
    [] chars.t = "absent" -> [raised |-> FALSE, counter |-> counter, expectations |-> <<>>]
    [] chars.t = "str" ->
         IF chars.s = <<>> THEN [raised |-> FALSE, counter |-> counter, expectations |-> <<>>]
         ELSE [raised |-> TRUE, exc |-> "AttributeError", counter |-> counter + 1]
    [] OTHER -> [raised |-> TRUE, exc |-> "TypeError", counter |-> counter]

\* a converter that numbers the expectations of every intent from one
ConvertedNumberingAnew(self, simple_json, e) ==
  [self |-> [intent_counter |-> self.intent_counter + 1,
             target_counter |-> self.target_counter + 1,
             expectation_counter |-> 0],
   out |-> IF e.raised THEN Raised(e.exc)
           ELSE [raised |-> FALSE,
                 id |-> <<"#intent-", self.intent_counter + 1>>,
                 name |-> GetOr(simple_json.name, PyStr(<<>>)),
                 description |-> GetOr(simple_json.description, PyStr(<<>>)),
                 hasExpectation |-> e.expectations,
                 target |-> << [id |-> <<"#target-", self.target_counter + 1>>,
                                type |-> "icm:Target",
                                resourceType |-> "NetworkSlice"] >>]]

\* the converter after the call and what the call returns, given the loop's
\* outcome e
Converted(self, simple_json, e) ==
  [self |-> [intent_counter |-> self.intent_counter + 1,
             target_counter |-> self.target_counter + 1,
             expectation_counter |-> e.counter],
   out |-> IF e.raised THEN Raised(e.exc)
           ELSE [raised |-> FALSE,
                 id |-> <<"#intent-", self.intent_counter + 1>>,
                 name |-> GetOr(simple_json.name, PyStr(<<>>)),
                 description |-> GetOr(simple_json.description, PyStr(<<>>)),
                 hasExpectation |-> e.expectations,
                 target |-> << [id |-> <<"#target-", self.target_counter + 1>>,
                                type |-> "icm:Target",
                                resourceType |-> "NetworkSlice"] >>]]

\* SimpleToICMConverter.convert
convert(self, simple_json) ==
  Converted(self, simple_json,
            ExpectationsOf(simple_json.chars, self.expectation_counter,
                           <<"#target-", self.target_counter + 1>>))

\* the name _convert_expectation_to_characteristic rebuilds from the
\* operator and the property
RebuiltName(operator, property) ==
  CASE operator = "quan:smaller" -> property \o <<" ", "t", "o", "l", "e", "r", "a", "n", "c", "e">>
    [] operator = "quan:greater" -> <<"G", "u", "a", "r", "a", "n", "t", "e", "e", "d", " ">> \o Lower(property)
    [] OTHER -> property

\* ICMToSimpleConverter._convert_expectation_to_characteristic
_convert_expectation_to_characteristic(expectation) ==
  Char(PyStr(RebuiltName(expectation.operator, expectation.property)),
       ValueObj(PyStr(Str(expectation.value)), expectation.unit))

\* the loop of ICMToSimpleConverter.convert: an expectation whose rebuilt
\* name is empty gives None and is left out
RECURSIVE Characteristics(_, _)
Characteristics(expectations, k) ==
  IF k > Len(expectations) THEN <<>>
  ELSE (IF RebuiltName(expectations[k].operator, expectations[k].property) = <<>>
        THEN <<>> ELSE <<_convert_expectation_to_characteristic(expectations[k])>>)
       \o Characteristics(expectations, k + 1)

\* ICMToSimpleConverter.convert
convert_back(icm_json) ==
  [name |-> icm_json.name,
   description |-> icm_json.description,
   chars |-> PyList(Characteristics(icm_json.hasExpectation, 1))]
----------------------------------------------------------------------------
(* compute_feaci_metrics (src/src/tmf921/utils/metrics.py) and the result  *)
(* dictionaries of BaseExperiment.process_scenario.  A key a dictionary    *)
(* does not have holds Absent.                                              *)

\* the result of a scenario that was validated
OkResult(scenario, corrected_intent, corrections, verdict, tokens, time_seconds) ==
  [scenario |-> scenario, generated_intent |-> corrected_intent,
   name_corrections |-> corrections, validation |-> verdict,
   metrics |-> [tokens |-> tokens, time_seconds |-> time_seconds],
   error |-> Absent]

\* the result of a scenario that failed
ErrorResult(scenario, error) ==
  [scenario |-> scenario, generated_intent |-> PyNone,
   name_corrections |-> Absent, validation |-> Absent, metrics |-> Absent,
   error |-> error]

\* r.get('validation') is truthy: a verdict is a dict that is not empty
HasValidation(r) == r.validation # Absent

\* r.get('generated_intent') is truthy
HasIntent(r) == r.generated_intent # PyNone

\* [r for r in rs if keep(r)] for the two filters of the metrics
RECURSIVE Validated_(_)
Validated_(rs) ==
  IF rs = <<>> THEN <<>>
  ELSE (IF HasValidation(Head(rs)) THEN <<Head(rs)>> ELSE <<>>) \o Validated_(Tail(rs))

\* sum(f(r) for r in rs) for the four sums of the metrics
RECURSIVE Sum(_, _)
Sum(rs, what) ==
  IF rs = <<>> THEN 0
  ELSE (CASE what = "format_valid" -> IF Head(rs).validation.format_valid THEN 1 ELSE 0
          [] what = "overall_valid" -> IF Head(rs).validation.overall_valid THEN 1 ELSE 0
          [] what = "tokens" -> Head(rs).metrics.tokens
          [] OTHER -> Head(rs).metrics.time_seconds)
       + Sum(Tail(rs), what)

\* the float a / b, held as a / b * FloatScale
Quotient(a, b) == (a * FloatScale) \div b

\* the metrics of a batch with validated results
Feaci(valid_results) ==
  [format_correctness |-> 100 * Quotient(Sum(valid_results, "format_valid"), Len(valid_results)),
   accuracy |-> 100 * Quotient(Sum(valid_results, "overall_valid"), Len(valid_results)),
   cost_avg_tokens |-> Quotient(Sum(valid_results, "tokens"), Len(valid_results)),
   cost_total_tokens |-> Sum(valid_results, "tokens"),
   inference_time_avg_seconds |-> Quotient(Sum(valid_results, "time_seconds"), Len(valid_results)),
   inference_time_total_seconds |-> Sum(valid_results, "time_seconds"),
   num_results |-> Len(valid_results)]

\* the metrics of a batch without a validated result
NoFeaci ==
  [format_correctness |-> 0, accuracy |-> 0, cost_avg_tokens |-> 0,
   cost_total_tokens |-> Absent, inference_time_avg_seconds |-> 0,
   inference_time_total_seconds |-> Absent, num_results |-> 0]

\* compute_feaci_metrics
compute_feaci_metrics(rs) ==
  IF Validated_(rs) = <<>> THEN NoFeaci ELSE Feaci(Validated_(rs))
----------------------------------------------------------------------------
(* Records handed to the components.                                       *)

Intent(n, d, c) == [name |-> n, description |-> d, chars |-> c]

\* all sequences over S of length at most n
RECURSIVE SeqsUpTo(_, _)
SeqsUpTo(S, n) ==
  IF n = 0 THEN {<<>>}
  ELSE LET shorter == SeqsUpTo(S, n - 1)
       IN  shorter \cup {Append(q, x) : q \in {r \in shorter : Len(r) = n - 1}, x \in S}

\* characteristics whose value has the declared type and unit
ConformingPool ==
  { Char(PyStr(<<"D", "e", "l", "a", "y", " ", "t", "o", "l", "e", "r", "a", "n", "c", "e">>), ValueObj(Flt(50, 1), PyStr(<<"m", "s">>))),
    Char(PyStr(<<"A", "v", "a", "i", "l", "a", "b", "i", "l", "i", "t", "y">>), ValueObj(Flt(100, 1), PyStr(<<"%">>))),
    Char(PyStr(<<"M", "a", "x", " ", "t", "h", "r", "o", "u", "g", "h", "p", "u", "t">>), ValueObj(Flt(5000, 1), PyStr(<<"G", "b", "p", "s">>))),
    Char(PyStr(<<"N", "u", "m", "b", "e", "r", " ", "o", "f", " ", "U", "E", "s">>), ValueObj(PyInt(10), Absent)),
    Char(PyStr(<<"A", "r", "e", "a">>), ValueObj(PyStr(<<"A", "t", "h", "e", "n", "s">>), Absent)),
    Char(PyStr(<<"M", "M", "T", "e", "l">>), ValueObj(PyBool(TRUE), Absent)),
    Char(PyStr(<<"B", "a", "n", "d", "s">>), ValueObj(PyList(<<PyStr(<<"n", "7", "8">>)>>), Absent)),
    Char(PyStr(<<"I", "s", "o", "l", "a", "t", "i", "o", "n">>), ValueObj(PyStr(<<"p", "h", "y", "s", "i", "c", "a", "l">>), Absent)) }

\* values of the declared type and unit that are implausible
ImplausiblePool ==
  { Char(PyStr(<<"A", "v", "a", "i", "l", "a", "b", "i", "l", "i", "t", "y">>), ValueObj(Flt(150, 1), PyStr(<<"%">>))),
    Char(PyStr(<<"D", "e", "l", "a", "y", " ", "t", "o", "l", "e", "r", "a", "n", "c", "e">>), ValueObj(Flt(5, 10000), PyStr(<<"m", "s">>))),
    Char(PyStr(<<"N", "u", "m", "b", "e", "r", " ", "o", "f", " ", "U", "E", "s">>), ValueObj(PyInt(-3), Absent)),
    Char(PyStr(<<"M", "a", "x", " ", "t", "h", "r", "o", "u", "g", "h", "p", "u", "t">>), ValueObj(Flt(-1, 1), PyStr(<<"G", "b", "p", "s">>))) }

\* wrong names, wrong types, units in another spelling, wrong and missing
\* units, and malformed characteristics
DefectPool ==
  { Char(PyStr(<<"M", "a", "d", "e", " ", "u", "p">>), ValueObj(PyInt(5), Absent)),
    Char(PyStr(<<"M", "a", "d", "e", " ", "u", "p">>), PyInt(5)),
    Char(Absent, ValueObj(PyInt(5), Absent)),
    Char(PyStr(<<"D", "e", "l", "a", "y", " ", "t", "o", "l", "e", "r", "a", "n", "c", "e">>), Absent),
    Char(PyStr(<<"D", "e", "l", "a", "y", " ", "t", "o", "l", "e", "r", "a", "n", "c", "e">>), ValueObj(PyInt(5), PyNone)),
    Char(PyStr(<<"E", "2", "E", " ", "l", "a", "t", "e", "n", "c", "y">>), ValueObj(PyStr(<<"1", "0", "0">>), PyStr(<<"m", "s">>))),
    Char(PyStr(<<"D", "e", "l", "a", "y", " ", "t", "o", "l", "e", "r", "a", "n", "c", "e">>), ValueObj(PyStr(<<"a", "b", "c">>), PyStr(<<"m", "s">>))),
    Char(PyStr(<<"D", "e", "l", "a", "y", " ", "t", "o", "l", "e", "r", "a", "n", "c", "e">>), ValueObj(Flt(50, 1), PyStr(<<"s">>))),
    Char(PyStr(<<"D", "e", "l", "a", "y", " ", "t", "o", "l", "e", "r", "a", "n", "c", "e">>), ValueObj(Flt(50, 1), PyStr(<<"M", "S">>))),
    Char(PyStr(<<"D", "e", "l", "a", "y", " ", "t", "o", "l", "e", "r", "a", "n", "c", "e">>), ValueObj(Flt(50, 1), PyStr(<<"m", "s", "e", "c">>))),
    Char(PyStr(<<"D", "e", "l", "a", "y", " ", "t", "o", "l", "e", "r", "a", "n", "c", "e">>), ValueObj(Flt(50, 1), PyStr(<<>>))),
    Char(PyStr(<<"D", "e", "l", "a", "y", " ", "t", "o", "l", "e", "r", "a", "n", "c", "e">>), ValueObj(Flt(50, 1), Absent)),
    Char(PyStr(<<"A", "v", "a", "i", "l", "a", "b", "i", "l", "i", "t", "y">>), ValueObj(Flt(99, 1), PyStr(<<"P", "e", "r", "c", "e", "n", "t">>))),
    Char(PyStr(<<"A", "v", "a", "i", "l", "a", "b", "i", "l", "i", "t", "y">>), ValueObj(Flt(99, 1), PyStr(<<"m", "s">>))) }

\* values whose runtime shape is not the declared type of the field
TypePool ==
  { Char(PyStr(<<"N", "u", "m", "b", "e", "r", " ", "o", "f", " ", "U", "E", "s">>), ValueObj(PyStr(<<"1", "0", "0">>), Absent)),
    Char(PyStr(<<"N", "u", "m", "b", "e", "r", " ", "o", "f", " ", "U", "E", "s">>), ValueObj(PyStr(<<"1", ".", "5">>), Absent)),
    Char(PyStr(<<"N", "u", "m", "b", "e", "r", " ", "o", "f", " ", "U", "E", "s">>), ValueObj(PyStr(<<"a", "b", "c">>), Absent)),
    Char(PyStr(<<"N", "u", "m", "b", "e", "r", " ", "o", "f", " ", "U", "E", "s">>), ValueObj(PyBool(TRUE), Absent)),
    Char(PyStr(<<"N", "u", "m", "b", "e", "r", " ", "o", "f", " ", "U", "E", "s">>), ValueObj(Flt(3, 2), Absent)),
    Char(PyStr(<<"N", "u", "m", "b", "e", "r", " ", "o", "f", " ", "U", "E", "s">>), ValueObj(PyList(<<PyInt(1)>>), Absent)),
    Char(PyStr(<<"D", "e", "l", "a", "y", " ", "t", "o", "l", "e", "r", "a", "n", "c", "e">>), ValueObj(PyBool(TRUE), PyStr(<<"m", "s">>))),
    Char(PyStr(<<"D", "e", "l", "a", "y", " ", "t", "o", "l", "e", "r", "a", "n", "c", "e">>), ValueObj(PyStr(<<"2", ".", "5">>), PyStr(<<"m", "s">>))),
    Char(PyStr(<<"D", "e", "l", "a", "y", " ", "t", "o", "l", "e", "r", "a", "n", "c", "e">>), ValueObj(PyList(<<PyInt(1)>>), PyStr(<<"m", "s">>))),
    Char(PyStr(<<"M", "M", "T", "e", "l">>), ValueObj(PyInt(5), Absent)),
    Char(PyStr(<<"M", "M", "T", "e", "l">>), ValueObj(PyStr(<<"Y", "e", "s">>), Absent)),
    Char(PyStr(<<"M", "M", "T", "e", "l">>), ValueObj(PyStr(<<"m", "a", "y", "b", "e">>), Absent)),
    Char(PyStr(<<"M", "M", "T", "e", "l">>), ValueObj(Flt(1, 1), Absent)),
    Char(PyStr(<<"A", "r", "e", "a">>), ValueObj(PyInt(5), Absent)),
    Char(PyStr(<<"I", "s", "o", "l", "a", "t", "i", "o", "n">>), ValueObj(PyBool(FALSE), Absent)),
    Char(PyStr(<<"B", "a", "n", "d", "s">>), ValueObj(PyStr(<<"n", "7", "8">>), Absent)),
    Char(PyStr(<<"B", "a", "n", "d", "s">>), ValueObj(PyInt(1), Absent)) }

CharPool == ConformingPool \cup ImplausiblePool \cup DefectPool

\* the records of the validation runs: every list of at most MaxChars
\* characteristics under a complete header, and the defective headers and
\* containers with at most one characteristic
Intents ==
  {Intent(PyStr(<<"T", "e", "s", "t">>), PyStr(<<"T", "e", "s", "t">>), PyList(cs)) : cs \in SeqsUpTo(CharPool, MaxChars)}
  \cup {Intent(h[1], h[2], PyList(cs)) :
          h \in {<<Absent, PyStr(<<"T", "e", "s", "t">>)>>, <<PyStr(<<"T", "e", "s", "t">>), Absent>>, <<PyStr(<<>>), PyStr(<<>>)>>},
          cs \in SeqsUpTo(CharPool, 1)}
  \cup {Intent(PyStr(<<"T", "e", "s", "t">>), PyStr(<<"T", "e", "s", "t">>), PyList(<<c>>)) : c \in TypePool}
  \cup {Intent(PyStr(<<"T", "e", "s", "t">>), PyStr(<<"T", "e", "s", "t">>), c) :
          c \in {Absent, PyNone, PyStr(<<>>), PyStr(<<"n", "o", "n", "e">>)}}

----------------------------------------------------------------------------
(* Response texts handed to extract_json.                                  *)

MaxSegments == 3

\* the pieces a model response is made of
Segments ==
  { <<"x">>,
    <<"{", "m1", "}">>,
    <<"{", "m1", ",", "k", "{", "m3", "}", "}">>,
    <<"{", "m1">>,
    <<"}">>,
    <<"null">>,
    <<"[1]">>,
    <<Fence, JsonWord, "\n", "{", "m2", "}", "\n", Fence>>,
    <<Fence, JsonWord, "\n", "x", "\n", Fence>>,
    <<Fence, "\n", "{", "m3", "}", "\n", Fence>>,
    <<Fence, JsonWord, BackslashN, "{", "m2", "}", Fence>>,
    <<Fence, JsonWord, "\n", "{", "m2", "}">> }

\* the segments of q, one space between two of them
RECURSIVE JoinSegments(_)
JoinSegments(q) ==
  IF q = <<>> THEN <<>>
  ELSE IF Len(q) = 1 THEN q[1]
  ELSE q[1] \o <<" ">> \o JoinSegments(Tail(q))

\* the response texts: at most MaxSegments segments
Texts == {JoinSegments(q) : q \in SeqsUpTo(Segments, MaxSegments)}

\* characteristics handed to the type corrector: text to coerce, values of
\* the declared type, unparseable text, and values that are missing, null or
\* not a {value, unitOfMeasure} object
FixPool ==
  { Char(PyStr(<<"B", "a", "n", "d", "s">>), ValueObj(PyStr(<<"a", ",", " ", "b">>), Absent)),
    Char(PyStr(<<"B", "a", "n", "d", "s">>), ValueObj(PyStr(<<"a", ",", "b">>), Absent)),
    Char(PyStr(<<"B", "a", "n", "d", "s">>), ValueObj(PyStr(<<"a", ",", " ", "b", ",", "c">>), Absent)),
    Char(PyStr(<<"B", "a", "n", "d", "s">>), ValueObj(PyStr(<<"n", "7", "8">>), Absent)),
    Char(PyStr(<<"M", "M", "T", "e", "l">>), ValueObj(PyStr(<<"Y", "e", "s">>), Absent)),
    Char(PyStr(<<"M", "M", "T", "e", "l">>), ValueObj(PyStr(<<" ", "N", "o", "t", " ", "S", "u", "p", "p", "o", "r", "t", "e", "d", " ">>), Absent)),
    Char(PyStr(<<"M", "M", "T", "e", "l">>), ValueObj(PyStr(<<"2">>), Absent)),
    Char(PyStr(<<"M", "M", "T", "e", "l">>), ValueObj(PyStr(<<"-", "1">>), Absent)),
    Char(PyStr(<<"M", "M", "T", "e", "l">>), ValueObj(PyStr(<<"m", "a", "y", "b", "e">>), Absent)),
    Char(PyStr(<<"M", "M", "T", "e", "l">>), ValueObj(PyInt(2), Absent)),
    Char(PyStr(<<"M", "M", "T", "e", "l">>), ValueObj(PyInt(0), Absent)),
    Char(PyStr(<<"M", "M", "T", "e", "l">>), ValueObj(PyInt(-1), Absent)),
    Char(PyStr(<<"M", "M", "T", "e", "l">>), ValueObj(Flt(-1, 2), Absent)),
    Char(PyStr(<<"M", "M", "T", "e", "l">>), ValueObj(PyBool(FALSE), Absent)),
    Char(PyStr(<<"N", "u", "m", "b", "e", "r", " ", "o", "f", " ", "U", "E", "s">>), ValueObj(PyStr(<<"1", "0", "0", ".", "5">>), Absent)),
    Char(PyStr(<<"N", "u", "m", "b", "e", "r", " ", "o", "f", " ", "U", "E", "s">>), ValueObj(PyStr(<<"1", "0", "0", ".", "6">>), Absent)),
    Char(PyStr(<<"N", "u", "m", "b", "e", "r", " ", "o", "f", " ", "U", "E", "s">>), ValueObj(Flt(5, 2), Absent)),
    Char(PyStr(<<"N", "u", "m", "b", "e", "r", " ", "o", "f", " ", "U", "E", "s">>), ValueObj(Flt(100, 1), Absent)),
    Char(PyStr(<<"N", "u", "m", "b", "e", "r", " ", "o", "f", " ", "U", "E", "s">>), ValueObj(PyStr(<<"1", "0", "0">>), Absent)),
    Char(PyStr(<<"D", "e", "l", "a", "y", " ", "t", "o", "l", "e", "r", "a", "n", "c", "e">>), ValueObj(PyStr(<<"1", "0", "0">>), PyStr(<<"m", "s">>))),
    Char(PyStr(<<"D", "e", "l", "a", "y", " ", "t", "o", "l", "e", "r", "a", "n", "c", "e">>), ValueObj(PyStr(<<"2", ".", "5">>), PyStr(<<"m", "s">>))),
    Char(PyStr(<<"D", "e", "l", "a", "y", " ", "t", "o", "l", "e", "r", "a", "n", "c", "e">>), ValueObj(Flt(50, 1), PyStr(<<"m", "s">>))),
    Char(PyStr(<<"D", "e", "l", "a", "y", " ", "t", "o", "l", "e", "r", "a", "n", "c", "e">>), ValueObj(PyStr(<<"a", "b", "c">>), PyStr(<<"m", "s">>))),
    Char(PyStr(<<"N", "u", "m", "b", "e", "r", " ", "o", "f", " ", "U", "E", "s">>), ValueObj(PyStr(<<"a", "b", "c">>), Absent)),
    Char(PyStr(<<"D", "e", "l", "a", "y", " ", "t", "o", "l", "e", "r", "a", "n", "c", "e">>), ValueObj(PyNone, PyStr(<<"m", "s">>))),
    Char(PyStr(<<"D", "e", "l", "a", "y", " ", "t", "o", "l", "e", "r", "a", "n", "c", "e">>), ValueObj(Absent, PyStr(<<"m", "s">>))),
    Char(PyStr(<<"D", "e", "l", "a", "y", " ", "t", "o", "l", "e", "r", "a", "n", "c", "e">>), Absent),
    Char(PyStr(<<"D", "e", "l", "a", "y", " ", "t", "o", "l", "e", "r", "a", "n", "c", "e">>), PyInt(5)),
    Char(PyStr(<<"N", "u", "m", "b", "e", "r", " ", "o", "f", " ", "U", "E", "s">>), PyNone),
    Char(PyStr(<<"M", "a", "d", "e", " ", "u", "p">>), PyInt(5)),
    Char(PyStr(<<"A", "r", "e", "a">>), ValueObj(PyStr(<<"A", "t", "h", "e", "n", "s">>), Absent)),
    Char(PyStr(<<"A", "r", "e", "a">>), ValueObj(PyInt(5), PyStr(<<"k", "m">>))),
    Char(PyStr(<<"I", "s", "o", "l", "a", "t", "i", "o", "n">>), ValueObj(PyBool(TRUE), Absent)),
    Char(PyStr(<<"M", "a", "d", "e", " ", "u", "p">>), ValueObj(PyStr(<<"1", "0", "0">>), PyStr(<<"m", "s">>))) }

\* the records of the type-correction runs
FixIntents ==
  {Intent(PyStr(<<"T", "e", "s", "t">>), PyStr(<<"T", "e", "s", "t">>), PyList(cs)) : cs \in SeqsUpTo(FixPool, MaxChars)}
  \cup {Intent(PyStr(<<"T", "e", "s", "t">>), PyStr(<<"T", "e", "s", "t">>), c) : c \in {Absent, PyStr(<<>>)}}

\* declared names: registry names, keys of the synonym table, near misses,
\* names containing a registry name of more and of fewer than four characters,
\* and names nothing resolves
NamePool ==
  { PyStr(<<"A", "v", "a", "i", "l", "a", "b", "i", "l", "i", "t", "y">>), PyStr(<<"A", "r", "e", "a">>),
    PyStr(<<"L", "a", "t", "e", "n", "c", "y">>), PyStr(<<"T", "h", "r", "o", "u", "g", "h", "p", "u", "t">>), PyStr(<<"N", "u", "m", "b", "e", "r", " ", "o", "f", " ", "u", "s", "e", "r", "s">>), PyStr(<<"R", "e", "l", "i", "a", "b", "i", "l", "i", "t", "y">>),
    PyStr(<<"A", "v", "a", "i", "l", "a", "b", "i", "l", "t", "y">>), PyStr(<<"A", "r", "e", "a", "s">>),
    PyStr(<<"M", "M", "T", "e", "l", " ", "s", "u", "p", "p", "o", "r", "t">>), PyStr(<<"V", "2", "X", " ", "m", "o", "d", "e">>), PyStr(<<"U", "E", "s">>), PyStr(<<"M", "a", "d", "e", " ", "u", "p">>),
    PyStr(<<>>), Absent }

\* the records of the name-reconciliation runs
NameIntents ==
  {Intent(PyStr(<<"T", "e", "s", "t">>), PyStr(<<"T", "e", "s", "t">>), PyList(cs)) :
     cs \in SeqsUpTo({Char(n, ValueObj(Flt(50, 1), PyStr(<<"m", "s">>))) : n \in NamePool}, MaxChars)}

\* the record a member token of a response stands for
RecordOf(m) ==
  CASE m = "m1" ->
         Intent(PyStr(<<"T", "e", "s", "t">>), PyStr(<<"T", "e", "s", "t">>),
                PyList(<<Char(PyStr(<<"D", "e", "l", "a", "y", " ", "t", "o", "l", "e", "r", "a", "n", "c", "e">>), ValueObj(Flt(50, 1), PyStr(<<"m", "s">>)))>>))
    [] m = "m2" ->
         Intent(PyStr(<<"T", "e", "s", "t">>), PyStr(<<"T", "e", "s", "t">>),
                PyList(<<Char(PyStr(<<"L", "a", "t", "e", "n", "c", "y">>), ValueObj(PyStr(<<"5", "0">>), PyStr(<<"m", "s">>)))>>))
    [] m = "m4" ->
         Intent(PyStr(<<"T", "e", "s", "t">>), PyStr(<<"T", "e", "s", "t">>),
                PyList(<<Char(PyStr(<<"M", "a", "d", "e", " ", "u", "p">>), ValueObj(PyInt(5), Absent))>>))
    [] OTHER ->
         Intent(PyStr(<<"T", "e", "s", "t">>), PyStr(<<"T", "e", "s", "t">>),
                PyList(<<Char(PyStr(<<"N", "u", "m", "b", "e", "r", " ", "o", "f", " ", "U", "E", "s">>), PyInt(5))>>))

\* a dict without any of the keys of a record
NoRecord == Intent(Absent, Absent, Absent)

\* the record held by a parsed JSON object: its top-level members, a later
\* one replacing an earlier one of the same key
Decode(v) ==
  LET held == {i \in 1..Len(v.members) : v.members[i].key \in Members}
  IN  IF held = {} THEN NoRecord
      ELSE RecordOf(v.members[CHOOSE i \in held : \A j \in held : i >= j].key)

----------------------------------------------------------------------------
(* Records handed to the converters.                                       *)

\* characteristics whose names stand for the operators smaller and greater
IcmPool ==
  { Char(PyStr(<<"D", "e", "l", "a", "y", " ", "t", "o", "l", "e", "r", "a", "n", "c", "e">>), ValueObj(PyStr(<<"2", "0">>), PyStr(<<"m", "s">>))),
    Char(PyStr(<<"G", "u", "a", "r", "a", "n", "t", "e", "e", "d", " ", "b", "a", "n", "d", "w", "i", "d", "t", "h">>), ValueObj(Flt(5, 2), PyStr(<<"G", "b", "p", "s">>))) }

\* the simple intents: every list of at most MaxChars characteristics under
\* a complete header, and single records with a blank or missing name, a
\* missing header and a malformed value
IcmIntents ==
  {Intent(PyStr(<<"G", "a", "m", "i", "n", "g", " ", "S", "l", "i", "c", "e">>), PyStr(<<"T", "e", "s", "t">>), PyList(cs)) : cs \in SeqsUpTo(IcmPool, MaxChars)}
  \cup {Intent(PyStr(<<"G", "a", "m", "i", "n", "g", " ", "S", "l", "i", "c", "e">>), PyStr(<<"T", "e", "s", "t">>), PyList(<<c>>)) :
          c \in { Char(PyStr(<<"A", "r", "e", "a">>), ValueObj(PyStr(<<"A", "t", "h", "e", "n", "s">>), Absent)),
                  Char(PyStr(<<>>), ValueObj(PyStr(<<"1">>), PyStr(<<>>))),
                  Char(PyStr(<<" ">>), ValueObj(PyInt(1), Absent)),
                  Char(Absent, ValueObj(PyBool(TRUE), Absent)),
                  Char(PyStr(<<"M", "a", "d", "e", " ", "u", "p">>), PyInt(5)) }}
  \cup {Intent(Absent, Absent, Absent), Intent(PyStr(<<>>), PyStr(<<>>), PyList(<<>>))}
----------------------------------------------------------------------------
(* Reconciliation and validation of one record. The record as it was       *)
(* handed over stays in extracted; intent is the dict the components       *)
(* rewrite in place.                                                        *)

NoResult == [raised |-> FALSE, none |-> TRUE]

InitValidate ==
  /\ pc = "extracted"
  /\ intent \in Intents
  /\ response_text = <<>>
  /\ extracted = intent
  /\ name_corrections = <<>>
  /\ type_corrections = <<>>
  /\ validation = NoResult
  /\ calls = <<>>
  /\ IdleRun /\ IdleIcm /\ IdleShared

\* corrected_intent, corrections = self.name_mapper.correct_intent(intent_json)
CorrectIntent ==
  /\ pc = "extracted"
  /\ \E r \in {correct_intent(intent)} :
         IF r.raised
         THEN /\ pc' = "error"
              /\ validation' = r
              /\ UNCHANGED <<intent, name_corrections>>
         ELSE /\ pc' = "reconciled"
              /\ intent' = r.intent
              /\ name_corrections' = r.corrections
              /\ UNCHANGED validation
  /\ calls' = Append(calls, "correct_intent")
  /\ UNCHANGED <<response_text, extracted, type_corrections>>
  /\ UNCHANGED <<runVars, icmVars, sharedVars>>

\* validation = self.validator.validate_all(corrected_intent)
ValidateAll ==
  /\ pc \in {"extracted", "reconciled"}
  /\ validation' = validate_all(intent)
  /\ pc' = IF validation'.raised THEN "error" ELSE "validated"
  /\ calls' = Append(calls, "validate_all")
  /\ UNCHANGED <<intent, response_text, extracted, name_corrections, type_corrections>>
  /\ UNCHANGED <<runVars, icmVars, sharedVars>>

\* self.validator.validate_format(intent_dict), the format check on its own
ValidateFormat ==
  /\ pc = "extracted"
  /\ validation' = validate_format(intent)
  /\ pc' = "format_checked"
  /\ calls' = Append(calls, "validate_format")
  /\ UNCHANGED <<intent, response_text, extracted, name_corrections, type_corrections>>
  /\ UNCHANGED <<runVars, icmVars, sharedVars>>

NextValidate == CorrectIntent \/ ValidateAll \/ ValidateFormat

SpecValidate == InitValidate /\ [][NextValidate]_vars

----------------------------------------------------------------------------
(* Type correction of one record.                                          *)

InitFix ==
  /\ pc = "extracted"
  /\ intent \in FixIntents
  /\ response_text = <<>>
  /\ extracted = intent
  /\ name_corrections = <<>>
  /\ type_corrections = <<>>
  /\ validation = NoResult
  /\ calls = <<>>
  /\ IdleRun /\ IdleIcm /\ IdleShared

\* Largest number of passes of the type corrector over one record.
MaxPasses == 2

\* fix_intent_types(intent, gst_spec), the module-level function, on the
\* extracted record or on the record a previous pass returned
FixIntentTypes ==
  /\ pc \in {"extracted", "fixed"}
  /\ Len(calls) < MaxPasses
  /\ \E r \in {fix_intent_types(intent)} :
         /\ intent' = r.intent
         /\ type_corrections' = r.corrections
         /\ pc' = IF r.raised THEN "error" ELSE "fixed"
         /\ validation' = IF r.raised THEN Raised(r.exc) ELSE validation
  /\ calls' = Append(calls, "fix_intent_types")
  /\ UNCHANGED <<response_text, extracted, name_corrections>>
  /\ UNCHANGED <<runVars, icmVars, sharedVars>>

NextFix == FixIntentTypes

SpecFix == InitFix /\ [][NextFix]_vars

----------------------------------------------------------------------------
(* Extraction of a value from one response text.                           *)

InitExtract ==
  /\ pc = "generated"
  /\ intent = NoRecord
  /\ response_text \in Texts
  /\ extracted = PyNone
  /\ name_corrections = <<>>
  /\ type_corrections = <<>>
  /\ validation = NoResult
  /\ calls = <<>>
  /\ IdleRun /\ IdleIcm /\ IdleShared

\* self.client.extract_json(response['response'])
ExtractJson ==
  /\ pc = "generated"
  /\ extracted' = extract_json(response_text)
  /\ pc' = "extracted"
  /\ calls' = Append(calls, "extract_json")
  /\ UNCHANGED <<intent, response_text, name_corrections, type_corrections, validation>>
  /\ UNCHANGED <<runVars, icmVars, sharedVars>>

NextExtract == ExtractJson

SpecExtract == InitExtract /\ [][NextExtract]_vars

----------------------------------------------------------------------------
(* Name reconciliation of one record.                                      *)

InitNames ==
  /\ pc = "extracted"
  /\ intent \in NameIntents
  /\ response_text = <<>>
  /\ extracted = intent
  /\ name_corrections = <<>>
  /\ type_corrections = <<>>
  /\ validation = NoResult
  /\ calls = <<>>
  /\ IdleRun /\ IdleIcm /\ IdleShared

SpecNames == InitNames /\ [][NextValidate]_vars

----------------------------------------------------------------------------
(* BaseExperiment.process_scenario: one scenario from the prompt to the    *)
(* result dictionary.                                                      *)

InitPipeline ==
  /\ pc = "start"
  /\ intent = NoRecord
  /\ response_text = <<>>
  /\ extracted = PyNone
  /\ name_corrections = <<>>
  /\ type_corrections = <<>>
  /\ validation = NoResult
  /\ calls = <<>>
  /\ IdleRun /\ IdleIcm /\ IdleShared

\* response = self.client.generate(...): the text of the model, or the
\* exception left after the retries
Generate ==
  /\ pc = "start"
  /\ \/ /\ response_text' \in Texts
        /\ pc' = "generated"
        /\ UNCHANGED validation
     \/ /\ pc' = "error"
        /\ validation' = Raised("RetryError")
        /\ UNCHANGED response_text
  /\ calls' = Append(calls, "generate")
  /\ UNCHANGED <<intent, extracted, name_corrections, type_corrections>>
  /\ UNCHANGED <<runVars, icmVars, sharedVars>>

\* bool(intent_json) for the value extract_json returned
TruthyJson(v) ==
  CASE v.t = "none" -> FALSE
    [] v.t = "dict" -> v.members # <<>>
    [] v.t = "list" -> v.items # <<>>
    [] OTHER -> v.n # 0

\* intent_json = self.client.extract_json(response['response']);
\* `if not intent_json` returns the 'Failed to extract JSON' result
Extract ==
  /\ pc = "generated"
  /\ extracted' = extract_json(response_text)
  /\ IF ~TruthyJson(extracted')
     THEN pc' = "failed" /\ UNCHANGED intent
     ELSE /\ pc' = "extracted_json"
          /\ intent' = IF extracted'.t = "dict" THEN Decode(extracted') ELSE intent
  /\ calls' = Append(calls, "extract_json")
  /\ UNCHANGED <<response_text, name_corrections, type_corrections, validation>>
  /\ UNCHANGED <<runVars, icmVars, sharedVars>>

\* corrected_intent, corrections = self.name_mapper.correct_intent(intent_json);
\* a list passes through unchanged, `in` on a number raises TypeError
Reconcile ==
  /\ pc = "extracted_json"
  /\ \E r \in {IF extracted.t = "dict" THEN correct_intent(intent)
              ELSE IF extracted.t = "list"
              THEN [raised |-> FALSE, intent |-> intent, corrections |-> <<>>]
              ELSE Raised("TypeError")} :
         IF r.raised
         THEN /\ pc' = "error"
              /\ validation' = r
              /\ UNCHANGED <<intent, name_corrections>>
         ELSE /\ pc' = "reconciled_json"
              /\ intent' = r.intent
              /\ name_corrections' = r.corrections
              /\ UNCHANGED validation
  /\ calls' = Append(calls, "correct_intent")
  /\ UNCHANGED <<response_text, extracted, type_corrections>>
  /\ UNCHANGED <<runVars, icmVars, sharedVars>>

\* validation = self.validator.validate_all(corrected_intent); a list has no
\* get, so validate_characteristics raises AttributeError on it
Validate ==
  /\ pc = "reconciled_json"
  /\ validation' = IF extracted.t = "dict" THEN validate_all(intent)
                   ELSE Raised("AttributeError")
  /\ pc' = IF validation'.raised THEN "error" ELSE "done"
  /\ calls' = Append(calls, "validate_all")
  /\ UNCHANGED <<intent, response_text, extracted, name_corrections, type_corrections>>
  /\ UNCHANGED <<runVars, icmVars, sharedVars>>

NextPipeline == Generate \/ Extract \/ Reconcile \/ Validate

SpecPipeline == InitPipeline /\ [][NextPipeline]_vars

----------------------------------------------------------------------------
(* A sequence of conversions through one SimpleToICMConverter, each result *)
(* converted back by an ICMToSimpleConverter.                              *)

\* Largest number of convert calls on one converter.
MaxConversions == 2

\* a conversion that has not been converted back
NotBack == [t |-> "none"]

InitConvert ==
  /\ pc = "ready"
  /\ intent = NoRecord
  /\ response_text = <<>>
  /\ extracted = PyNone
  /\ name_corrections = <<>>
  /\ type_corrections = <<>>
  /\ validation = NoResult
  /\ calls = <<>>
  /\ IdleRun /\ IdleIcm /\ IdleShared

\* icm = simple_to_icm.convert(simple_json)
Convert ==
  /\ pc = "ready"
  /\ Len(converted) < MaxConversions
  /\ \E simple_json \in IcmIntents :
       \E r \in {convert(converter, simple_json)} :
         /\ converter' = r.self
         /\ converted' = Append(converted, [simple |-> simple_json, icm |-> r.out, back |-> NotBack])
         /\ intent' = simple_json
  /\ calls' = Append(calls, "convert")
  /\ UNCHANGED <<pc, response_text, extracted, name_corrections, type_corrections, validation>>
  /\ UNCHANGED <<runVars, sharedVars>>

\* simple_back = icm_to_simple.convert(icm), on the latest conversion
ConvertBack ==
  /\ pc = "ready"
  /\ converted # <<>>
  /\ ~converted[Len(converted)].icm.raised
  /\ converted[Len(converted)].back = NotBack
  /\ converted' = [converted EXCEPT ![Len(converted)].back =
                     convert_back(converted[Len(converted)].icm)]
  /\ calls' = Append(calls, "convert_back")
  /\ UNCHANGED <<pc, intent, response_text, extracted, name_corrections, type_corrections, validation>>
  /\ UNCHANGED <<converter, runVars, sharedVars>>

NextConvert == Convert \/ ConvertBack

SpecConvert == InitConvert /\ [][NextConvert]_vars
----------------------------------------------------------------------------
(* One record taken through name reconciliation, type correction and      *)
(* validation, in that order.                                               *)

\* fields with a synonym for a name, text for a number, a conforming value
\* and a name nothing resolves
EndToEndPool ==
  { Char(PyStr(<<"E", "2", "E", " ", "l", "a", "t", "e", "n", "c", "y">>), ValueObj(PyStr(<<"1", "0", "0">>), PyStr(<<"m", "s">>))),
    Char(PyStr(<<"D", "e", "l", "a", "y", " ", "t", "o", "l", "e", "r", "a", "n", "c", "e">>), ValueObj(Flt(50, 1), PyStr(<<"m", "s">>))),
    Char(PyStr(<<"N", "u", "m", "b", "e", "r", " ", "o", "f", " ", "u", "s", "e", "r", "s">>), ValueObj(PyStr(<<"1", "0", "0", ".", "6">>), Absent)),
    Char(PyStr(<<"M", "M", "T", "e", "l">>), ValueObj(PyStr(<<"Y", "e", "s">>), Absent)),
    Char(PyStr(<<"A", "v", "a", "i", "l", "a", "b", "i", "l", "i", "t", "y">>), ValueObj(PyStr(<<"a", "b", "c">>), PyStr(<<"%">>))),
    Char(PyStr(<<"M", "a", "d", "e", " ", "u", "p">>), ValueObj(PyInt(5), Absent)) }

EndToEndIntents ==
  {Intent(PyStr(<<"T", "e", "s", "t">>), PyStr(<<"T", "e", "s", "t">>), PyList(cs)) : cs \in SeqsUpTo(EndToEndPool, MaxChars)}

InitEndToEnd ==
  /\ pc = "extracted"
  /\ intent \in EndToEndIntents
  /\ response_text = <<>>
  /\ extracted = intent
  /\ name_corrections = <<>>
  /\ type_corrections = <<>>
  /\ validation = NoResult
  /\ calls = <<>>
  /\ IdleRun /\ IdleIcm /\ IdleShared

\* fix_intent_types(corrected_intent, gst_spec) on the reconciled record
FixReconciled ==
  /\ pc = "reconciled"
  /\ \E r \in {fix_intent_types(intent)} :
         /\ intent' = r.intent
         /\ type_corrections' = r.corrections
         /\ pc' = IF r.raised THEN "error" ELSE "retyped"
         /\ validation' = IF r.raised THEN Raised(r.exc) ELSE validation
  /\ calls' = Append(calls, "fix_intent_types")
  /\ UNCHANGED <<response_text, extracted, name_corrections>>
  /\ UNCHANGED <<runVars, icmVars, sharedVars>>

\* validator.validate_all(fixed_intent) on the record with corrected types
ValidateFixed ==
  /\ pc = "retyped"
  /\ validation' = validate_all(intent)
  /\ pc' = IF validation'.raised THEN "error" ELSE "validated"
  /\ calls' = Append(calls, "validate_all")
  /\ UNCHANGED <<intent, response_text, extracted, name_corrections, type_corrections>>
  /\ UNCHANGED <<runVars, icmVars, sharedVars>>

NextEndToEnd == CorrectIntent \/ FixReconciled \/ ValidateFixed

SpecEndToEnd == InitEndToEnd /\ [][NextEndToEnd]_vars
----------------------------------------------------------------------------
(* Two callers of fix_intent_types on one TMF921TypeCorrector.  The lists  *)
(* are objects of heap; self.corrections_made and the value a call returns *)
(* are references to them.  A caller runs the loop one characteristic at a *)
(* time, and the callers take their steps in any order.                    *)

Callers == {1, 2}

\* records with values to coerce and values to keep
SharedPool ==
  { Char(PyStr(<<"B", "a", "n", "d", "s">>), ValueObj(PyStr(<<"a", ",", " ", "b">>), Absent)),
    Char(PyStr(<<"D", "e", "l", "a", "y", " ", "t", "o", "l", "e", "r", "a", "n", "c", "e">>), ValueObj(PyStr(<<"1", "0", "0">>), PyStr(<<"m", "s">>))),
    Char(PyStr(<<"A", "r", "e", "a">>), ValueObj(PyStr(<<"A", "t", "h", "e", "n", "s">>), Absent)) }

SharedIntents ==
  {Intent(PyStr(<<"T", "e", "s", "t">>), PyStr(<<"T", "e", "s", "t">>), PyList(cs)) : cs \in SeqsUpTo(SharedPool, MaxChars)}

\* a caller before its call: the record it holds, the position of the loop,
\* the list its call returned and the corrections made to its own record
Caller(d) == [phase |-> "idle", intent |-> d, k |-> 0, returned |-> 0, own |-> <<>>]

\* __init__: self.corrections_made = [] is the first list object
InitShared ==
  /\ pc = "shared"
  /\ intent = NoRecord
  /\ response_text = <<>>
  /\ extracted = PyNone
  /\ name_corrections = <<>>
  /\ type_corrections = <<>>
  /\ validation = NoResult
  /\ calls = <<>>
  /\ IdleRun /\ IdleIcm
  /\ heap = << <<>> >>
  /\ corrections_made = 1
  /\ callers \in [Callers -> {Caller(d) : d \in SharedIntents}]

\* self.corrections_made = []; characteristics = intent.get(...)
BeginFix(c) ==
  /\ callers[c].phase = "idle"
  /\ heap' = Append(heap, <<>>)
  /\ corrections_made' = Len(heap) + 1
  /\ callers' = [callers EXCEPT ![c].phase = "running", ![c].k = 1]
  /\ UNCHANGED <<recordVars, runVars, icmVars>>

\* one pass of the loop: the _fix_*_type method rewrites the characteristic
\* and appends to the list self.corrections_made refers to at that moment
FixNext(c) ==
  /\ callers[c].phase = "running"
  /\ callers[c].k <= Len(callers[c].intent.chars.items)
  /\ \E r \in {FixChar(callers[c].intent.chars.items[callers[c].k])} :
       /\ heap' = [heap EXCEPT ![corrections_made] = @ \o r.corrections]
       /\ callers' = [callers EXCEPT
                        ![c].intent.chars.items[callers[c].k] = r.char,
                        ![c].k = @ + 1,
                        ![c].own = @ \o r.corrections,
                        ![c].phase = IF r.raised THEN "raised" ELSE "running"]
  /\ UNCHANGED <<corrections_made, recordVars, runVars, icmVars>>

\* return intent, self.corrections_made
ReturnFix(c) ==
  /\ callers[c].phase = "running"
  /\ callers[c].k > Len(callers[c].intent.chars.items)
  /\ callers' = [callers EXCEPT ![c].phase = "returned", ![c].returned = corrections_made]
  /\ UNCHANGED <<heap, corrections_made, recordVars, runVars, icmVars>>

NextShared == \E c \in Callers : BeginFix(c) \/ FixNext(c) \/ ReturnFix(c)

SpecShared == InitShared /\ [][NextShared]_vars
----------------------------------------------------------------------------
(* BaseExperiment.run: the loop over the scenarios, the retried generate   *)
(* call of each scenario, the checkpoints and the final metrics.  The      *)
(* locals of process_scenario are the variables of one pass over a record. *)

\* Largest number of scenarios of an experiment.
MaxScenarios == 10

\* Largest number of scenarios of one run that do not end with a valid record.
MaxFaults == 1

\* @retry(stop=stop_after_attempt(3), ...)
StopAfterAttempt == 3

\* if i % 10 == 0: self.save_checkpoint(i)
CheckpointEvery == 10

\* what the model server answers: the text of the message and the counts
\* and the time that go into the totals
RunResponses ==
  { [content |-> <<"{", "m1", "}">>, prompt_eval_count |-> 3, eval_count |-> 5, elapsed |-> 2],
    [content |-> <<"{", "m4", "}">>, prompt_eval_count |-> 3, eval_count |-> 4, elapsed |-> 1],
    [content |-> <<"{", "m3", "}">>, prompt_eval_count |-> 3, eval_count |-> 4, elapsed |-> 1],
    [content |-> <<"x">>, prompt_eval_count |-> 3, eval_count |-> 1, elapsed |-> 1] }

\* the response that holds a record the validator accepts
GoodResponse == CHOOSE r \in RunResponses : r.content = <<"{", "m1", "}">>

\* the scenarios whose result is not a valid record
Faults == {k \in 1..Len(results) :
             ~HasValidation(results[k]) \/ ~results[k].validation.overall_valid}

\* the locals of process_scenario before its first statement
FreshLocals ==
  /\ intent' = NoRecord
  /\ response_text' = <<>>
  /\ extracted' = PyNone
  /\ name_corrections' = <<>>
  /\ type_corrections' = <<>>
  /\ validation' = NoResult
  /\ calls' = <<>>
  /\ attempt_number' = 0

\* __init__ and setup: the first num_scenarios scenarios, no result yet
InitRun ==
  /\ pc = "loop"
  /\ intent = NoRecord
  /\ response_text = <<>>
  /\ extracted = PyNone
  /\ name_corrections = <<>>
  /\ type_corrections = <<>>
  /\ validation = NoResult
  /\ calls = <<>>
  /\ \E n \in 0..MaxScenarios : scenarios = [k \in 1..n |-> k]
  /\ export_icm \in BOOLEAN
  /\ idx = 0
  /\ results = <<>>
  /\ files = {}
  /\ client = [total_tokens |-> 0, total_time |-> 0]
  /\ attempt_number = 0
  /\ IdleIcm /\ IdleShared

\* for i, scenario in enumerate(self.scenarios, 1): process_scenario is entered
NextScenario ==
  /\ pc = "loop"
  /\ idx < Len(scenarios)
  /\ idx' = idx + 1
  /\ pc' = "start"
  /\ UNCHANGED <<intent, response_text, extracted, name_corrections, type_corrections,
                 validation, calls, attempt_number>>
  /\ UNCHANGED <<scenarios, export_icm, results, files, client, icmVars, sharedVars>>

\* a failing attempt that is counted in the totals of the client
AttemptFailsCounted ==
  /\ pc = "start"
  /\ attempt_number < StopAfterAttempt
  /\ Cardinality(Faults) < MaxFaults
  /\ attempt_number' = attempt_number + 1
  /\ client' = [client EXCEPT !.total_time = @ + 1]
  /\ IF attempt_number' = StopAfterAttempt
     THEN pc' = "error" /\ validation' = Raised("RetryError")
     ELSE UNCHANGED <<pc, validation>>
  /\ calls' = Append(calls, "generate")
  /\ UNCHANGED <<intent, response_text, extracted, name_corrections, type_corrections>>
  /\ UNCHANGED <<scenarios, export_icm, idx, results, files, icmVars, sharedVars>>

\* one attempt of self.client.generate fails: the connection check, the
\* request or the status; after the last attempt the retry gives up and the
\* exception reaches the except clause of process_scenario
AttemptFails ==
  /\ pc = "start"
  /\ attempt_number < StopAfterAttempt
  /\ Cardinality(Faults) < MaxFaults
  /\ attempt_number' = attempt_number + 1
  /\ IF attempt_number' = StopAfterAttempt
     THEN pc' = "error" /\ validation' = Raised("RetryError")
     ELSE UNCHANGED <<pc, validation>>
  /\ calls' = Append(calls, "generate")
  /\ UNCHANGED <<intent, response_text, extracted, name_corrections, type_corrections>>
  /\ UNCHANGED <<scenarios, export_icm, idx, results, files, client, icmVars, sharedVars>>

\* one attempt of self.client.generate succeeds: the totals are updated and
\* the response is returned
AttemptSucceeds ==
  /\ pc = "start"
  /\ attempt_number < StopAfterAttempt
  /\ \E r \in RunResponses :
       /\ r = GoodResponse \/ Cardinality(Faults) < MaxFaults
       /\ response_text' = r.content
       /\ client' = [total_tokens |-> client.total_tokens + r.prompt_eval_count + r.eval_count,
                     total_time |-> client.total_time + r.elapsed]
  /\ attempt_number' = attempt_number + 1
  /\ pc' = "generated"
  /\ calls' = Append(calls, "generate")
  /\ UNCHANGED <<intent, extracted, name_corrections, type_corrections, validation>>
  /\ UNCHANGED <<scenarios, export_icm, idx, results, files, icmVars, sharedVars>>

\* the response dictionary generate returned for the text
ResponseOf(text) == CHOOSE r \in RunResponses : r.content = text

\* the dictionary process_scenario returns
ResultOf(scenario) ==
  CASE pc = "failed" -> ErrorResult(scenario, "Failed to extract JSON")
    [] pc = "error" -> ErrorResult(scenario, validation.exc)
    [] OTHER ->
         OkResult(scenario, intent, name_corrections, validation,
                  ResponseOf(response_text).prompt_eval_count + ResponseOf(response_text).eval_count,
                  ResponseOf(response_text).elapsed)

\* open(name, 'w') and json.dump: the file is created or replaced
WriteFile(fs, name, content) ==
  {f \in fs : f.name # name} \cup {[name |-> name, content |-> content]}

\* the converter after convert was called on every result with an intent,
\* and the number of calls that returned
RECURSIVE ConvertAll(_, _, _)
ConvertAll(self, rs, count) ==
  IF rs = <<>> THEN [self |-> self, count |-> count]
  ELSE IF ~HasIntent(Head(rs)) THEN ConvertAll(self, Tail(rs), count)
  ELSE ConvertAll(convert(self, Head(rs).generated_intent).self, Tail(rs),
                  IF convert(self, Head(rs).generated_intent).out.raised
                  THEN count ELSE count + 1)

\* save_checkpoint(num_scenarios) on the results rs
save_checkpoint(fs, rs, num_scenarios) ==
  IF export_icm
  THEN WriteFile(WriteFile(fs, <<"checkpoint_", num_scenarios, ".json">>, Len(rs)),
                 <<"checkpoint_", num_scenarios, "_icm.json">>, Len(rs))
  ELSE WriteFile(fs, <<"checkpoint_", num_scenarios, ".json">>, Len(rs))

\* a run that an error result ends
AppendResultOrStop ==
  /\ pc \in {"failed", "error", "done"}
  /\ IF pc = "done"
     THEN /\ results' = Append(results, ResultOf(scenarios[idx]))
          /\ pc' = "loop"
     ELSE /\ pc' = "crashed"
          /\ UNCHANGED results
  /\ FreshLocals
  /\ UNCHANGED <<scenarios, export_icm, idx, files, client, icmVars, sharedVars>>

\* process_scenario returns; run appends the result and saves a checkpoint
\* after every tenth scenario
AppendResult ==
  /\ pc \in {"failed", "error", "done"}
  /\ results' = Append(results, ResultOf(scenarios[idx]))
  /\ IF idx % CheckpointEvery = 0
     THEN /\ files' = save_checkpoint(files, results', idx)
          /\ converter' = IF export_icm THEN ConvertAll(converter, results', 0).self
                          ELSE converter
     ELSE UNCHANGED <<files, converter>>
  /\ pc' = "loop"
  /\ FreshLocals
  /\ UNCHANGED <<scenarios, export_icm, idx, client, converted, sharedVars>>

\* len([r for r in self.results if r.get('generated_intent')])
SuccessfullyProcessed(rs) == Len(SelectSeq(rs, HasIntent))

\* the results with validation.overall_valid
ValidResults(rs) ==
  SelectSeq(rs, LAMBDA r : HasValidation(r) /\ r.validation.overall_valid)

\* sum(len(r.get('name_corrections', [])) ...) over the results
RECURSIVE NumCorrections(_)
NumCorrections(rs) ==
  IF rs = <<>> THEN 0
  ELSE (IF Head(rs).name_corrections = Absent THEN 0 ELSE Len(Head(rs).name_corrections))
       + NumCorrections(Tail(rs))

\* the dictionary written to metrics_summary.json
MetricsSummary(rs, total_scenarios, icm_export) ==
  [honest_counts |->
     [total_scenarios |-> total_scenarios,
      processing_failures |-> total_scenarios - SuccessfullyProcessed(rs),
      processing_failure_rate |-> Quotient(total_scenarios - SuccessfullyProcessed(rs), total_scenarios),
      successfully_processed |-> SuccessfullyProcessed(rs),
      processing_success_rate |-> Quotient(SuccessfullyProcessed(rs), total_scenarios),
      valid_intents |-> Len(ValidResults(rs)),
      validation_success_rate_on_processed |->
        IF SuccessfullyProcessed(rs) > 0
        THEN Quotient(Len(ValidResults(rs)), SuccessfullyProcessed(rs)) ELSE 0,
      overall_success_rate |-> Quotient(Len(ValidResults(rs)), total_scenarios)],
   num_corrections |-> NumCorrections(rs),
   feaci |-> compute_feaci_metrics(rs),
   icm_export |-> icm_export]

\* compute_and_save_metrics: with no scenario the first rate printed divides
\* by zero; otherwise the summary is written, and written again with the
\* count of the conversions when the ICM export is enabled
ComputeAndSaveMetrics ==
  /\ pc = "loop"
  /\ idx = Len(scenarios)
  /\ IF Len(scenarios) = 0
     THEN /\ pc' = "crashed"
          /\ validation' = Raised("ZeroDivisionError")
          /\ UNCHANGED <<files, converter>>
     ELSE /\ pc' = "complete"
          /\ converter' = IF export_icm THEN ConvertAll(converter, results, 0).self ELSE converter
          /\ files' = WriteFile(files, <<"metrics_summary.json">>,
                         MetricsSummary(results, Len(scenarios),
                           IF export_icm
                           THEN [enabled |-> TRUE,
                                 successful_conversions |-> ConvertAll(converter, results, 0).count]
                           ELSE Absent))
          /\ UNCHANGED validation
  /\ UNCHANGED <<intent, response_text, extracted, name_corrections, type_corrections, calls>>
  /\ UNCHANGED <<scenarios, export_icm, idx, results, client, attempt_number, converted, sharedVars>>

NextRun ==
  \/ NextScenario \/ AttemptFails \/ AttemptSucceeds
  \/ Extract \/ Reconcile \/ Validate
  \/ AppendResult \/ ComputeAndSaveMetrics

SpecRun == InitRun /\ [][NextRun]_vars
----------------------------------------------------------------------------
(* Properties of validation.                                               *)

\* validate_all has been called on the record and has returned or raised
Validated == calls # <<>> /\ calls[Len(calls)] = "validate_all"

\* the characteristics of a record, none when the key is missing
CharsOf(d) == IF d.chars.t = "list" THEN d.chars.items ELSE <<>>

\* a value of the runtime type that the valueType declares
HasDeclaredType(v, ty) ==
  CASE ty = "INTEGER" -> v.t = "int"
    [] ty = "FLOAT" -> v.t \in {"float", "int"}
    [] ty \in {"TEXT", "ENUM"} -> v.t = "str"
    [] ty = "BINARY" -> v.t = "bool"
    [] ty = "SET" -> v.t = "list"
    [] OTHER -> FALSE

\* a characteristic with a registry name and a {value, unitOfMeasure} object
\* holding a value of the declared type and exactly the declared unit
ConformingChar(c) ==
  /\ c.name.t = "str" /\ c.name.s \in RegistryNames
  /\ c.value.t = "dict"
  /\ c.value.value.t \notin {"absent", "none"}
  /\ HasDeclaredType(c.value.value, GstChar(c.name.s).valueType)
  /\ c.value.unitOfMeasure = GstChar(c.name.s).unitOfMeasure

Conforming(d) ==
  /\ d.name.t = "str" /\ d.description.t = "str"
  /\ d.chars.t \in {"absent", "list"}
  /\ \A i \in 1..Len(CharsOf(d)) : ConformingChar(CharsOf(d)[i])

\* the number held by a conforming INTEGER or FLOAT value, scaled by FloatScale
Scaled(v) == IF v.t = "int" THEN v.n * FloatScale ELSE v.m

Mentions(c, kw) == Contains(kw, Lower(c.name.s))

UnitIs(c, u) == c.value.unitOfMeasure.t = "str" /\ Lower(c.value.unitOfMeasure.s) = u

\* a conforming characteristic that breaks none of the logical constraints
WithinConstraints(c) ==
  GstChar(c.name.s).valueType \in {"INTEGER", "FLOAT"} =>
    LET m == Scaled(c.value.value)
    IN  /\ UnitIs(c, <<"%">>) => (0 <= m /\ m <= 100 * FloatScale)
        /\ (Mentions(c, <<"t", "h", "r", "o", "u", "g", "h", "p", "u", "t">>) \/ Mentions(c, <<"b", "a", "n", "d", "w", "i", "d", "t", "h">>)) =>
             (m >= 0 /\ (UnitIs(c, <<"g", "b", "p", "s">>) => m <= 10000 * FloatScale))
        /\ (Mentions(c, <<"l", "a", "t", "e", "n", "c", "y">>) \/ Mentions(c, <<"d", "e", "l", "a", "y">>)) =>
             (m >= 0 /\ (UnitIs(c, <<"m", "s">>) => m >= FloatScale \div 1000))
        /\ (Mentions(c, <<"n", "u", "m", "b", "e", "r">>) \/ Mentions(c, <<"c", "o", "u", "n", "t">>) \/ Mentions(c, <<"d", "e", "n", "s", "i", "t", "y">>)) =>
             m >= 0

AllWithinConstraints(d) == \A i \in 1..Len(CharsOf(d)) : WithinConstraints(CharsOf(d)[i])

Unresolved(c) == c.name.t = "str" /\ c.name.s \notin RegistryNames

\* C3 (as claimed): a record that still holds a characteristic of unresolved
\* name after correct_intent gets a verdict with a 'not found' error and
\* overall_valid = false, and the characteristic is still in the record.
C3_AsClaimed ==
  (/\ Validated /\ Len(calls) = 2 /\ calls[1] = "correct_intent"
   /\ \E i \in 1..Len(CharsOf(intent)) : Unresolved(CharsOf(intent)[i])) =>
    /\ ~validation.raised
    /\ ~validation.overall_valid
    /\ \E i \in 1..Len(validation.errors) : validation.errors[i].kind = "not_found"

\* C4 (as claimed): validate_all returns a verdict for every record and never
\* raises.
C4_AsClaimed == Validated => ~validation.raised


----------------------------------------------------------------------------
(* Properties of type correction.                                          *)

\* fix_intent_types has been called on the record and has returned or raised
FixCalled == calls # <<>> /\ calls[Len(calls)] = "fix_intent_types"

\* a characteristic whose value is missing, null or not a
\* {value, unitOfMeasure} object
NothingToCoerce(c) ==
  \/ c.value.t # "dict"
  \/ c.value.value.t \in {"absent", "none"}

\* C5 (as claimed): fix_intent_types never raises, and a characteristic whose
\* value is missing, null or not a {value, unitOfMeasure} object is left as
\* it was.
C5_AsClaimed ==
  FixCalled =>
    /\ pc = "fixed"
    /\ \A i \in 1..Len(CharsOf(extracted)) :
         NothingToCoerce(CharsOf(extracted)[i]) => CharsOf(intent)[i] = CharsOf(extracted)[i]

----------------------------------------------------------------------------
(* Properties of the per-record pipeline.                                  *)

\* the position of the first call of the component in the history, 0 if none
FirstCall(component) ==
  LET at == {i \in 1..Len(calls) : calls[i] = component}
  IN  IF at = {} THEN 0 ELSE CHOOSE i \in at : \A j \in at : i <= j

\* C6 (as claimed): a record is handed to validate_all only after name
\* reconciliation and then type correction have been run on it.
C6_AsClaimed ==
  FirstCall("validate_all") # 0 =>
    /\ FirstCall("correct_intent") # 0
    /\ FirstCall("correct_intent") < FirstCall("fix_intent_types")
    /\ FirstCall("fix_intent_types") < FirstCall("validate_all")

----------------------------------------------------------------------------
(* Properties of extraction.                                               *)

\* extract_json has returned
Extracted == calls # <<>> /\ calls[Len(calls)] = "extract_json"

\* the positions where a json fence opens a block that a later fence closes
JsonBlocks(s) ==
  {i \in 1..(Len(s) - 1) : s[i] = Fence /\ s[i + 1] = JsonWord /\ FindToken(s, Fence, i + 2) # 0}

\* the tokens inside the block opened at position i
BlockContent(s, i) == SubSeq(s, i + 2, FindToken(s, Fence, i + 2) - 1)

\* the block opened at position i holds exactly one JSON object
HoldsObject(s, i) ==
  json_loads(BlockContent(s, i)).ok /\ json_loads(BlockContent(s, i)).val.t = "dict"

\* the first block opened by a json fence
FirstJsonBlock(s) == CHOOSE i \in JsonBlocks(s) : \A j \in JsonBlocks(s) : i <= j

C8_AsClaimed ==
  Extracted =>
    /\ (extracted = PyNone) = (\A i \in 1..4 : ~Strategies(response_text)[i].ok)
    /\ \A i \in 1..4 :
         (Strategies(response_text)[i].ok /\ \A j \in 1..(i - 1) : ~Strategies(response_text)[j].ok)
           => extracted = Strategies(response_text)[i].val

\* C9 (as claimed): whatever extract_json returns other than None is a JSON
\* object.
C9_AsClaimed == Extracted => extracted.t \in {"none", "dict"}

----------------------------------------------------------------------------
(* Properties of name reconciliation.                                      *)

\* correct_intent has returned
Reconciled == calls = <<"correct_intent">> /\ pc = "reconciled"

\* the name declared by the i-th characteristic of the record handed over
Declared(i) == CharsOf(extracted)[i].name

\* the name the i-th characteristic carries now
Carried(i) == CharsOf(intent)[i].name

\* the pair logged for a rename
Logged(from, to) == \E k \in 1..Len(name_corrections) : name_corrections[k] = <<from, to>>

LoggedFrom(from) == \E k \in 1..Len(name_corrections) : name_corrections[k][1] = from

\* the name the four steps give in their order of priority, none if no step
\* matches
Resolution(n) ==
  IF n \in RegistryNames THEN PyStr(n)
  ELSE IF IsKnownMapping(n) THEN PyStr(KnownMapping(n))
  ELSE IF get_close_matches(n, valid_names) # <<>> THEN PyStr(get_close_matches(n, valid_names)[1])
  ELSE PartialMatch(n)

\* C10: names resolve by exact registry match, then the synonym table, then
\* similarity, then containment, the first match winning: a key of the table
\* gets the table's target even when it is close to another registry name,
\* and a registry name is kept with no correction logged.
C10_FirstMatchWins ==
  Reconciled =>
    \A i \in 1..Len(CharsOf(extracted)) :
      Truthy(Declared(i)) =>
        /\ Declared(i).s \in RegistryNames =>
             (Carried(i) = Declared(i) /\ ~LoggedFrom(Declared(i).s))
        /\ (Declared(i).s \notin RegistryNames /\ IsKnownMapping(Declared(i).s)) =>
             (/\ Carried(i) = PyStr(KnownMapping(Declared(i).s))
              /\ Logged(Declared(i).s, KnownMapping(Declared(i).s)))
        /\ Carried(i) = (IF Resolution(Declared(i).s) = NoName THEN Declared(i)
                         ELSE Resolution(Declared(i).s))

C10_Witness ==
  /\ Reconciled
  /\ \E i, j \in 1..Len(CharsOf(extracted)) :
       /\ Truthy(Declared(i)) /\ Truthy(Declared(j))
       /\ Declared(i).s \notin RegistryNames
       /\ IsKnownMapping(Declared(i).s)
       /\ get_close_matches(Declared(i).s, valid_names) # <<>>
       /\ get_close_matches(Declared(i).s, valid_names)[1] # KnownMapping(Declared(i).s)
       /\ Carried(i) = PyStr(KnownMapping(Declared(i).s))
       /\ Declared(j).s \in RegistryNames
       /\ Carried(j) = Declared(j)
       /\ ~LoggedFrom(Declared(j).s)

----------------------------------------------------------------------------
(* Further properties of name reconciliation.                              *)

\* the i-th characteristic was renamed by correct_intent
Renamed(i) == Truthy(Declared(i)) /\ Carried(i) # Declared(i)

\* C11 (as claimed): every name correct_intent puts in place of a declared
\* name is a name of the registry, so the renamed characteristic passes the
\* membership check of validate_characteristics.
C11_AsClaimed ==
  Reconciled =>
    \A i \in 1..Len(CharsOf(extracted)) : Renamed(i) => InRegistry(Carried(i))

\* the i-th characteristic got its name from the containment step: no earlier
\* step of correct_name matches the declared name
ByContainment(i) ==
  /\ Renamed(i)
  /\ Declared(i).s \notin RegistryNames
  /\ ~IsKnownMapping(Declared(i).s)
  /\ get_close_matches(Declared(i).s, valid_names) = <<>>

\* C12 (as claimed): the containment step accepts a registry name only when
\* the shorter of the declared name and the registry name has more than 3
\* characters.
C12_AsClaimed ==
  Reconciled =>
    \A i \in 1..Len(CharsOf(extracted)) :
      ByContainment(i) => (Len(Declared(i).s) > 3 /\ Len(Carried(i).s) > 3)

----------------------------------------------------------------------------
(* Further properties of type correction.                                  *)

\* the first pass of fix_intent_types has returned
FixedOnce == calls = <<"fix_intent_types">> /\ pc = "fixed"

\* the i-th characteristic as it was handed over, and as it is now
Before(i) == CharsOf(extracted)[i]

After(i) == CharsOf(intent)[i]

\* the value inside the {value, unitOfMeasure} object of a characteristic
ValueOf(c) == IF c.value.t = "dict" THEN GetOr(c.value.value, PyNone) ELSE PyNone

\* the characteristic has a registry name of the declared type ty
DeclaredAs(c, ty) == InRegistry(c.name) /\ GstChar(c.name.s).valueType = ty

\* a correction of the kind is logged for the name of the characteristic
Corrects(c, kind) ==
  \E k \in 1..Len(type_corrections) :
    type_corrections[k].kind = kind /\ type_corrections[k].name = c.name.s

\* C13 (as claimed): a SET value that is text with commas becomes the list
\* of its items split at every comma, none of which holds a comma, and a
\* correction is logged.
C13_AsClaimed ==
  FixedOnce =>
    \A i \in 1..Len(CharsOf(extracted)) :
      (/\ DeclaredAs(Before(i), "SET")
       /\ ValueOf(Before(i)).t = "str"
       /\ Contains(<<",">>, ValueOf(Before(i)).s)) =>
        /\ ValueOf(After(i)).t = "list"
        /\ \A k \in 1..Len(ValueOf(After(i)).items) :
             ~Contains(<<",">>, ValueOf(After(i)).items[k].s)
        /\ Corrects(Before(i), "SET")

\* the number a float, or a text with a decimal point, stands for, scaled by
\* FloatScale
Fractional(v) ==
  CASE v.t = "float" -> Parsed(v.m)
    [] v.t = "str" /\ Contains(<<".">>, v.s) -> ParseFloat(v.s)
    [] OTHER -> Failed

\* the nearest integer, a tie going up
RoundHalfUp(m) == (2 * m + FloatScale) \div (2 * FloatScale)

\* C14 (as claimed): an INTEGER value with a fractional part, given as a
\* float or as decimal text, becomes the nearest integer, a tie rounded up,
\* and a correction is logged.
C14_AsClaimed ==
  FixedOnce =>
    \A i \in 1..Len(CharsOf(extracted)) :
      (/\ DeclaredAs(Before(i), "INTEGER")
       /\ Fractional(ValueOf(Before(i))).ok
       /\ Fractional(ValueOf(Before(i))).n % FloatScale # 0) =>
        /\ ValueOf(After(i)) = PyInt(RoundHalfUp(Fractional(ValueOf(Before(i))).n))
        /\ Corrects(Before(i), "INTEGER")

\* a value the corrector can read as the declared type
Parseable(v, ty) ==
  CASE ty = "SET" -> v.t \in {"list", "str", "int", "float"}
    [] ty = "BINARY" -> v.t \in {"bool", "str", "int", "float"}
    [] ty = "INTEGER" ->
         \/ v.t \in {"int", "float"}
         \/ v.t = "str" /\ (ParseInt(v.s).ok \/ Fractional(v).ok)
    [] ty = "FLOAT" -> v.t \in {"int", "float"} \/ (v.t = "str" /\ ParseFloat(v.s).ok)
    [] OTHER -> FALSE

\* a value of the runtime type the declared type stands for
OfRuntimeType(v, ty) ==
  CASE ty = "SET" -> v.t = "list"
    [] ty = "BINARY" -> v.t = "bool"
    [] ty = "INTEGER" -> v.t = "int"
    [] ty = "FLOAT" -> v.t \in {"int", "float"}
    [] OTHER -> FALSE

\* C15 (as claimed): after fix_intent_types every characteristic of registry
\* name whose value could be read as its declared type holds a value of that
\* runtime type, and a correction is logged whenever the value changed.
C15_AsClaimed ==
  FixedOnce =>
    \A i \in 1..Len(CharsOf(extracted)) :
      (/\ InRegistry(Before(i).name)
       /\ Parseable(ValueOf(Before(i)), GstChar(Before(i).name.s).valueType)) =>
        /\ OfRuntimeType(ValueOf(After(i)), GstChar(Before(i).name.s).valueType)
        /\ (After(i) # Before(i) => \E k \in 1..Len(type_corrections) :
                                      type_corrections[k].name = Before(i).name.s)

TrueWords ==
  {<<"s", "u", "p", "p", "o", "r", "t", "e", "d">>, <<"y", "e", "s">>, <<"t", "r", "u", "e">>,
   <<"e", "n", "a", "b", "l", "e", "d">>, <<"a", "v", "a", "i", "l", "a", "b", "l", "e">>, <<"1">>}

FalseWords ==
  {<<"n", "o", "t", " ", "s", "u", "p", "p", "o", "r", "t", "e", "d">>, <<"n", "o">>,
   <<"f", "a", "l", "s", "e">>, <<"d", "i", "s", "a", "b", "l", "e", "d">>,
   <<"u", "n", "a", "v", "a", "i", "l", "a", "b", "l", "e">>, <<"0">>}

\* the text trimmed and lower-cased
Word(s) == Strip(Lower(s))

\* the boolean the claim gives a text
ClaimedBinary(s) ==
  IF Word(s) \in TrueWords THEN TRUE
  ELSE IF Word(s) \in FalseWords THEN FALSE
  ELSE IF ParseFloat(s).ok THEN ParseFloat(s).n > 0
  ELSE TRUE

\* C16: a BINARY value that is text becomes true for a word of the true
\* list, false for a word of the false list, otherwise (number > 0) when the
\* text parses as a number and true when it does not, and a correction is
\* logged in each of these cases.
C16_BinaryText ==
  FixedOnce =>
    \A i \in 1..Len(CharsOf(extracted)) :
      (DeclaredAs(Before(i), "BINARY") /\ ValueOf(Before(i)).t = "str") =>
        /\ ValueOf(After(i)) = PyBool(ClaimedBinary(ValueOf(Before(i)).s))
        /\ \E k \in 1..Len(type_corrections) :
             type_corrections[k] =
               Correction("BINARY", Before(i).name.s, ValueOf(Before(i)), ValueOf(After(i)))

C16_Witness ==
  /\ FixedOnce
  /\ \E i, j \in 1..Len(CharsOf(extracted)) :
       /\ DeclaredAs(Before(i), "BINARY") /\ ValueOf(Before(i)).t = "str"
       /\ Word(ValueOf(Before(i)).s) \notin TrueWords \cup FalseWords
       /\ ~ParseFloat(ValueOf(Before(i)).s).ok
       /\ ValueOf(After(i)) = PyBool(TRUE)
       /\ DeclaredAs(Before(j), "BINARY") /\ ValueOf(Before(j)).t = "str"
       /\ Word(ValueOf(Before(j)).s) \in FalseWords
       /\ ValueOf(Before(j)).s # Word(ValueOf(Before(j)).s)
       /\ ValueOf(After(j)) = PyBool(FALSE)
       /\ Len(type_corrections) = 2

\* a number that is not a bool
IsPlainNumber(v) == v.t \in {"int", "float"}

\* C17 (as claimed): a BINARY value that is a number becomes true for every
\* number but zero, a negative one included, and false for zero.
C17_AsClaimed ==
  FixedOnce =>
    \A i \in 1..Len(CharsOf(extracted)) :
      (DeclaredAs(Before(i), "BINARY") /\ IsPlainNumber(ValueOf(Before(i)))) =>
        ValueOf(After(i)) = PyBool(Scaled(ValueOf(Before(i))) # 0)

\* C17 (amended): a BINARY value that is a number becomes true exactly when
\* the number is greater than zero; zero and every negative number become
\* false; a correction is logged.
C17_PositiveIsTrue ==
  FixedOnce =>
    \A i \in 1..Len(CharsOf(extracted)) :
      (DeclaredAs(Before(i), "BINARY") /\ IsPlainNumber(ValueOf(Before(i)))) =>
        /\ ValueOf(After(i)) = PyBool(Scaled(ValueOf(Before(i))) > 0)
        /\ Corrects(Before(i), "BINARY")

C17_Witness ==
  /\ FixedOnce
  /\ \E i, j \in 1..Len(CharsOf(extracted)) :
       /\ DeclaredAs(Before(i), "BINARY") /\ IsPlainNumber(ValueOf(Before(i)))
       /\ Scaled(ValueOf(Before(i))) < 0
       /\ ValueOf(After(i)) = PyBool(FALSE)
       /\ DeclaredAs(Before(j), "BINARY") /\ IsPlainNumber(ValueOf(Before(j)))
       /\ Scaled(ValueOf(Before(j))) > 0
       /\ ValueOf(After(j)) = PyBool(TRUE)

\* a pass of fix_intent_types over the record a previous pass returned
LaterPass ==
  /\ pc = "fixed"
  /\ calls # <<>>
  /\ calls' = Append(calls, "fix_intent_types")

\* C18: type correction is idempotent: a pass of fix_intent_types over the
\* record a previous pass returned raises nothing, changes no value and
\* returns an empty list of corrections.
C18_Idempotent ==
  [][LaterPass => (pc' = "fixed" /\ intent' = intent /\ type_corrections' = <<>>)]_vars

C18_Witness ==
  /\ calls = <<"fix_intent_types", "fix_intent_types">>
  /\ pc = "fixed"
  /\ type_corrections = <<>>
  /\ Len(CharsOf(extracted)) = 2
  /\ \A i \in 1..2 : After(i) # Before(i)

----------------------------------------------------------------------------
(* Further properties of validation.                                       *)

\* a record with a name, a description and a list of characteristics that
\* each have a name and a {value, unitOfMeasure} object whose unit, if there
\* is one, is text
WellFormed(d) ==
  /\ d.name.t = "str" /\ d.description.t = "str"
  /\ d.chars.t = "list"
  /\ \A i \in 1..Len(d.chars.items) :
       /\ d.chars.items[i].name.t = "str"
       /\ d.chars.items[i].value.t = "dict"
       /\ d.chars.items[i].value.unitOfMeasure.t \in {"absent", "str"}

\* the spellings the validator takes for one unit
UnitSynonyms ==
  { {<<"p", "e", "r", "c", "e", "n", "t">>, <<"p", "e", "r", "c", "e", "n", "t", "a", "g", "e">>, <<"%">>},
    {<<"m", "i", "l", "l", "i", "s", "e", "c", "o", "n", "d", "s">>, <<"m", "s", "e", "c">>,
     <<"m", "i", "l", "l", "i", "s", "e", "c", "o", "n", "d">>, <<"m", "s">>} }

\* two units equal case-insensitively or spellings of the same unit
SameUnit(u, v) ==
  \/ Lower(u) = Lower(v)
  \/ \E g \in UnitSynonyms : Lower(u) \in g /\ Lower(v) \in g

\* the characteristic has a registry name whose entry declares a unit
DeclaresUnit(c) == InRegistry(c.name) /\ Truthy(GstChar(c.name.s).unitOfMeasure)

\* the unit the characteristic carries, empty when it carries none
UnitOf(c) == GetOr(c.value.unitOfMeasure, PyStr(<<>>)).s

\* validate_all reports a unit error under the name
UnitErrorFor(n) ==
  \E k \in 1..Len(validation.errors) :
    validation.errors[k] = Err("unit_mismatch", n)

\* C19 (as claimed): a unit error is reported for a characteristic of
\* declared unit unless its unit is the declared one up to case and the
\* synonym table; a missing or empty unit is not exempt.
C19_AsClaimed ==
  (Validated /\ WellFormed(intent)) =>
    /\ ~validation.raised
    /\ \A i \in 1..Len(CharsOf(intent)) :
         (/\ DeclaresUnit(CharsOf(intent)[i])
          /\ ~SameUnit(UnitOf(CharsOf(intent)[i]),
                       GstChar(CharsOf(intent)[i].name.s).unitOfMeasure.s)) =>
           UnitErrorFor(CharsOf(intent)[i].name.s)

\* the unit check finds a mismatch: a unit that is not empty and is not the
\* declared one up to case and the synonym table
UnitMismatch(c) ==
  /\ DeclaresUnit(c)
  /\ UnitOf(c) # <<>>
  /\ ~SameUnit(UnitOf(c), GstChar(c.name.s).unitOfMeasure.s)

\* C19 (amended): a unit error is reported under a name exactly when a
\* characteristic of that name carries a unit that is not empty and is not
\* the declared one up to case and the synonym table; a characteristic with
\* a missing or empty unit gets no unit error; the record is not rewritten.
C19_GivenUnitIsChecked ==
  (Validated /\ WellFormed(intent)) =>
    /\ ~validation.raised
    /\ \A i \in 1..Len(CharsOf(intent)) :
         UnitErrorFor(CharsOf(intent)[i].name.s) <=>
           \E j \in 1..Len(CharsOf(intent)) :
             /\ CharsOf(intent)[j].name = CharsOf(intent)[i].name
             /\ UnitMismatch(CharsOf(intent)[j])
    /\ (calls = <<"validate_all">> => intent = extracted)

C19_Witness ==
  /\ Validated /\ WellFormed(intent) /\ ~validation.raised
  /\ \E i, j \in 1..Len(CharsOf(intent)) :
       /\ DeclaresUnit(CharsOf(intent)[i])
       /\ UnitOf(CharsOf(intent)[i]) = <<>>
       /\ ~UnitErrorFor(CharsOf(intent)[i].name.s)
       /\ UnitMismatch(CharsOf(intent)[j])
       /\ UnitErrorFor(CharsOf(intent)[j].name.s)

\* validate_format has returned
FormatChecked == calls = <<"validate_format">> /\ pc = "format_checked"

\* a key of the record that is missing or holds an empty or null value
MissingOrEmpty(v) == v.t = "absent" \/ ~Truthy(v)

\* a characteristic without the key 'name' or the key 'value'
LacksKey(d) ==
  \E i \in 1..Len(CharsOf(d)) :
    CharsOf(d)[i].name.t = "absent" \/ CharsOf(d)[i].value.t = "absent"

\* C20 (as claimed): format_valid is false, with an error, whenever the name
\* or the description of the record is missing or empty and whenever a
\* characteristic lacks a name or a value, and true otherwise.
C20_AsClaimed ==
  FormatChecked =>
    /\ ~validation.raised
    /\ validation.valid = ~(\/ MissingOrEmpty(intent.name)
                            \/ MissingOrEmpty(intent.description)
                            \/ LacksKey(intent))
    /\ validation.valid = (validation.msgs = <<>>)

\* C20 (amended): format_valid is false, with an error, whenever the record
\* has no key 'name' or no key 'description', whenever its
\* serviceSpecCharacteristic is there and is not a list, and whenever a
\* characteristic has no key 'name' or no key 'value'; otherwise it is true,
\* also for a name or description that is empty.
C20_KeysArePresent ==
  FormatChecked =>
    /\ ~validation.raised
    /\ validation.valid = ~(\/ intent.name.t = "absent"
                            \/ intent.description.t = "absent"
                            \/ intent.chars.t \notin {"absent", "list"}
                            \/ LacksKey(intent))
    /\ validation.valid = (validation.msgs = <<>>)

C20_Witness ==
  /\ FormatChecked
  /\ intent.name = PyStr(<<>>) /\ intent.description = PyStr(<<>>)
  /\ CharsOf(intent) # <<>>
  /\ ~LacksKey(intent)
  /\ validation.valid /\ validation.msgs = <<>>

----------------------------------------------------------------------------
(* The per-type rules of validation.                                       *)

TypeErrorKinds ==
  {"expected_INTEGER", "integer_decimal_point", "expected_FLOAT",
   "expected_TEXT", "expected_BINARY", "expected_ENUM", "expected_SET"}

\* validate_all reports a type error under the name
TypeErrorFor(n) ==
  \E k \in 1..Len(validation.errors) :
    validation.errors[k].kind \in TypeErrorKinds /\ validation.errors[k].who = n

\* the declared type of a characteristic with a registry name
DeclaredType(c) == GstChar(c.name.s).valueType

\* the runtime shape the declared type asks for, read strictly
StrictShape(v, ty) ==
  CASE ty = "INTEGER" -> v.t = "int"
    [] ty = "FLOAT" -> v.t \in {"int", "float"}
    [] ty = "BINARY" -> v.t = "bool"
    [] ty \in {"TEXT", "ENUM"} -> v.t = "str"
    [] ty = "SET" -> v.t = "list"
    [] OTHER -> TRUE

LenientShape(v, ty) ==
  CASE ty = "INTEGER" -> v.t \in {"int", "bool"} \/ (v.t = "str" /\ ParseInt(v.s).ok)
    [] ty = "FLOAT" -> v.t \in {"int", "bool", "float"} \/ (v.t = "str" /\ ParseFloat(v.s).ok)
    [] ty = "BINARY" ->
         \/ v.t \in {"int", "bool"}
         \/ Lower(Str(v)) \in {<<"t", "r", "u", "e">>, <<"f", "a", "l", "s", "e">>, <<"0">>, <<"1">>, <<"y", "e", "s">>, <<"n", "o">>}
    [] ty \in {"TEXT", "ENUM"} -> v.t = "str"
    [] ty = "SET" -> v.t = "list"
    [] OTHER -> TRUE

\* a characteristic with a registry name whose value the type check refuses
TypeMismatch(c) ==
  /\ InRegistry(c.name)
  /\ c.value.value.t \notin {"absent", "none"}
  /\ ~LenientShape(c.value.value, DeclaredType(c))

----------------------------------------------------------------------------
(* Properties of the conversions.                                          *)

\* the positions of the conversions that returned an ICM intent
Returned_ == {i \in 1..Len(converted) : ~converted[i].icm.raised}

\* the expectations made so far, each as <<conversion, position>>
AllExpectations ==
  UNION {{<<i, k>> : k \in 1..Len(converted[i].icm.hasExpectation)} : i \in Returned_}

\* C26 (as claimed): converting a simple intent to ICM and back keeps its
\* name, its description and the number of its characteristics.
C26_AsClaimed ==
  \A i \in Returned_ :
    converted[i].back # NotBack =>
      /\ converted[i].back.name = GetOr(converted[i].simple.name, PyStr(<<>>))
      /\ converted[i].back.description = GetOr(converted[i].simple.description, PyStr(<<>>))
      /\ Len(converted[i].back.chars.items) = Len(CharsOf(converted[i].simple))

\* C30: over the convert calls made on one converter, the @ids of the
\* intents are pairwise distinct and so are the @ids of the expectations;
\* each intent has one target, every expectation refers to it, and the
\* intent has one expectation per input characteristic, in input order.
C30_IdsAndShape ==
  /\ \A i, j \in Returned_ : i # j => converted[i].icm.id # converted[j].icm.id
  /\ \A p, r \in AllExpectations :
       p # r => converted[p[1]].icm.hasExpectation[p[2]].id
                  # converted[r[1]].icm.hasExpectation[r[2]].id
  /\ \A i \in Returned_ :
       /\ Len(converted[i].icm.target) = 1
       /\ Len(converted[i].icm.hasExpectation) = Len(CharsOf(converted[i].simple))
       /\ \A k \in 1..Len(converted[i].icm.hasExpectation) :
            /\ converted[i].icm.hasExpectation[k].target = converted[i].icm.target[1].id
            /\ converted[i].icm.hasExpectation[k].property =
                 _normalize_property_name(
                   GetOr(CharsOf(converted[i].simple)[k].name, PyStr(<<>>)).s)
            /\ converted[i].icm.hasExpectation[k].unit =
                 GetOr(CharsOf(converted[i].simple)[k].value.unitOfMeasure, PyStr(<<>>))

C30_Witness ==
  /\ Len(converted) = MaxConversions
  /\ \A i \in 1..Len(converted) :
       /\ i \in Returned_
       /\ Len(converted[i].icm.hasExpectation) = MaxChars
       /\ converted[i].icm.hasExpectation[1].property
            # converted[i].icm.hasExpectation[MaxChars].property
----------------------------------------------------------------------------
(* What type correction leaves alone.                                      *)

\* the characteristic is one the corrector repairs: a registry name of
\* declared type SET, BINARY, INTEGER or FLOAT
Repaired(c) ==
  InRegistry(c.name) /\ GstChar(c.name.s).valueType \in {"SET", "BINARY", "INTEGER", "FLOAT"}

\* b is a but for the value inside its {value, unitOfMeasure} object
SameButInnerValue(a, b) ==
  /\ b.name = a.name
  /\ b.value.t = a.value.t
  /\ a.value.t = "dict" => b.value.unitOfMeasure = a.value.unitOfMeasure
  /\ a.value.t # "dict" => b.value = a.value

\* C25: fix_intent_types changes nothing but the inner value of the fields
\* whose name is in the registry and whose declared type is SET, BINARY,
\* INTEGER or FLOAT: name, description, number and order of the fields,
\* every field name and unit, every TEXT or ENUM field and every field of
\* unresolved name are as they were handed over.
C25_OnlyInnerValues ==
  FixCalled =>
    /\ intent.name = extracted.name
    /\ intent.description = extracted.description
    /\ intent.chars.t = extracted.chars.t
    /\ Len(CharsOf(intent)) = Len(CharsOf(extracted))
    /\ \A i \in 1..Len(CharsOf(extracted)) :
         /\ SameButInnerValue(Before(i), After(i))
         /\ ~Repaired(Before(i)) => After(i) = Before(i)

C25_Witness ==
  /\ FixedOnce
  /\ \E i, j \in 1..Len(CharsOf(extracted)) :
       /\ Repaired(Before(i)) /\ After(i) # Before(i)
       /\ Before(i).value.unitOfMeasure = PyStr(<<"m", "s">>)
       /\ ~Repaired(Before(j)) /\ InRegistry(Before(j).name)
       /\ ValueOf(Before(j)).t # "str"

----------------------------------------------------------------------------
(* The three components in sequence.                                       *)

\* the record of the example: 'E2E latency' holding the text '100' in ms
LatencyAsText ==
  Intent(PyStr(<<"T", "e", "s", "t">>), PyStr(<<"T", "e", "s", "t">>),
         PyList(<<Char(PyStr(<<"E", "2", "E", " ", "l", "a", "t", "e", "n", "c", "y">>), ValueObj(PyStr(<<"1", "0", "0">>), PyStr(<<"m", "s">>)))>>))

\* the three calls have been made on the record handed over
EndToEndDone ==
  calls = <<"correct_intent", "fix_intent_types", "validate_all">>

\* C23: the record with the one field 'E2E latency' = '100' ms, taken
\* through correct_intent, fix_intent_types and validate_all, ends with a
\* field named 'Delay tolerance' holding the number 100.0, one name
\* correction, one type correction and overall_valid = true without errors.
C23_EndToEnd ==
  (extracted = LatencyAsText /\ Len(calls) = 3) =>
    /\ EndToEndDone /\ pc = "validated"
    /\ intent = Intent(PyStr(<<"T", "e", "s", "t">>), PyStr(<<"T", "e", "s", "t">>),
                       PyList(<<Char(PyStr(<<"D", "e", "l", "a", "y", " ", "t", "o", "l", "e", "r", "a", "n", "c", "e">>),
                                     ValueObj(Flt(100, 1), PyStr(<<"m", "s">>)))>>))
    /\ Len(name_corrections) = 1
    /\ Len(type_corrections) = 1
    /\ ~validation.raised /\ validation.overall_valid /\ validation.errors = <<>>

C23_Witness ==
  /\ extracted = LatencyAsText /\ EndToEndDone /\ pc = "validated"
  /\ CharsOf(intent)[1].value.value = Flt(100, 1)

----------------------------------------------------------------------------
(* The correction log of a shared corrector.                               *)

\* the list the call of c returned, as it is now
LogOf(c) == heap[callers[c].returned]

\* C24 (as claimed): the log a fix_intent_types call returned holds exactly
\* the corrections made to the record of that call, whether the calls on
\* the shared corrector follow each other or are interleaved, and no later
\* call changes it.
C24_AsClaimed ==
  \A c \in Callers : callers[c].phase = "returned" => LogOf(c) = callers[c].own

----------------------------------------------------------------------------
(* Properties of a run of the experiment.                                  *)

\* the result is the dictionary of a scenario that failed
IsErrorResult(r) == r = ErrorResult(r.scenario, r.error)

\* run has returned or has been left by an exception
RunEnded == pc \in {"complete", "crashed"}

\* the file is in results_dir
Exists(name) == \E f \in files : f.name = name

\* C22 (as claimed): a batch without a validated result has all-zero rates,
\* zero average cost and num_results = 0, and compute_and_save_metrics
\* completes when the list of scenarios is empty.
C22_AsClaimed ==
  /\ Validated_(results) = <<>> =>
       /\ compute_feaci_metrics(results).format_correctness = 0
       /\ compute_feaci_metrics(results).accuracy = 0
       /\ compute_feaci_metrics(results).cost_avg_tokens = 0
       /\ compute_feaci_metrics(results).num_results = 0
  /\ (scenarios = <<>> /\ RunEnded) => pc = "complete"

\* C27 (as claimed): after run has completed over N >= 1 scenarios,
\* metrics_summary.json has been written, and checkpoint_N_icm.json has
\* been written if and only if export_icm is enabled.
C27_AsClaimed ==
  (pc = "complete" /\ Len(scenarios) >= 1) =>
    /\ Exists(<<"metrics_summary.json">>)
    /\ Exists(<<"checkpoint_", Len(scenarios), "_icm.json">>) <=> export_icm

\* every result so far belongs to the scenario of its position, and the
\* loop is at most one scenario ahead of the results
InScenarioOrder ==
  /\ Len(results) <= Len(scenarios)
  /\ \A k \in 1..Len(results) : results[k].scenario = scenarios[k]
  /\ Len(results) = IF pc = "loop" \/ RunEnded THEN idx ELSE idx - 1
  /\ RunEnded => Len(results) = Len(scenarios)
  /\ (pc = "loop" /\ idx < Len(scenarios)) => ENABLED NextScenario

\* a scenario that has failed gets its error result and the loop goes on
ErrorResultNext ==
  pc \in {"failed", "error"} =>
    /\ results' = Append(results, ErrorResult(scenarios[idx], results'[Len(results')].error))
    /\ pc' = "loop" /\ idx' = idx

\* C28: run appends one result per scenario, in scenario order; a scenario
\* that ends with a generation error, an extraction failure or an exception
\* of reconciliation or validation gets an error result, after which the
\* loop goes on with the next scenario, and run ends with a result for
\* each scenario.
C28_OneResultPerScenario ==
  /\ []InScenarioOrder
  /\ [][ErrorResultNext]_vars

C28_Witness ==
  /\ RunEnded /\ Len(results) = MaxScenarios
  /\ \E k \in 1..(Len(results) - 1) :
       /\ IsErrorResult(results[k])
       /\ \A j \in (k + 1)..Len(results) : HasValidation(results[j])

\* the generate calls of the scenario in progress
Attempts == Len(SelectSeq(calls, LAMBDA c : c = "generate"))

\* generation or extraction of the scenario in progress has failed
GaveUp == pc = "failed" \/ (pc = "error" /\ validation = Raised("RetryError"))

\* what C29 says of one step
BoundedRetriesNext ==
  /\ Attempts <= StopAfterAttempt /\ attempt_number' <= StopAfterAttempt
  /\ client' # client =>
       /\ pc = "start" /\ pc' = "generated"
       /\ client'.total_tokens > client.total_tokens
       /\ client'.total_time > client.total_time
  /\ (pc = "start" /\ pc' = "error") =>
       Attempts = StopAfterAttempt - 1 /\ validation' = Raised("RetryError")
  /\ GaveUp =>
       /\ Len(results') = Len(results) + 1
       /\ IsErrorResult(results'[Len(results')])
       /\ ~HasValidation(results'[Len(results')])
       /\ results'[Len(results')].generated_intent = PyNone
       /\ calls' = <<>>

\* C29: the generate call of a scenario is attempted at most three times;
\* the totals of the client grow only in a step that is a successful
\* attempt; when the last attempt or the extraction has failed, the next
\* step of the scenario is its error result, a result without verdict, and
\* nothing is generated or extracted again.
C29_BoundedRetries == [][BoundedRetriesNext]_vars

C29_Witness ==
  /\ Len(results) >= 2
  /\ IsErrorResult(results[Len(results)])
  /\ results[Len(results)].error = "RetryError"
  /\ client.total_tokens > 0
====
